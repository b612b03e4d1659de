----------------------------- MODULE SeerClient -----------------------------
(***************************************************************************)
(* SeerTcpClient: one long TCP connection to one port of a vehicle, shared *)
(* by all coroutines that send requests to it.  One action runs from one   *)
(* point where a coroutine waits to the next.                              *)
(*                                                                         *)
(* _close_silent is one step: while it waits for the cancelled receive     *)
(* loop and for the old transport, every other coroutine that would        *)
(* reconnect waits for the same two.  push_queue is left out: nobody       *)
(* reads it, and a packet that finds it full is dropped.                   *)
(***************************************************************************)
EXTENDS SeerProtocol, FiniteSets, SequencesExt

CONSTANTS
    Requests,   \* coroutines that call send_request, again and again
    Numbers,    \* how many request numbers there are: 2^16 - 1
    Lengths,    \* body_len, in cells, of what noise makes look like a header
    MaxDraws,   \* bound: numbers drawn, and arrivals of noise, together
    MaxConns,   \* bound: connections opened
    MaxNoisy,   \* bound: arrivals of noise
    Faults,     \* what network and callers may do, see FaultKinds
    Nobody      \* no request

\* peer    the vehicle closes the connection, or it breaks
\* refuse  no connection can be opened
\* full    a write finds the send buffer above its limit
\* noise   bytes that belong to no packet arrive between packets
\* cancel  a caller gives up (asyncio.wait_for around a request)
\* drop    the pool closes the client (SeerManager.drop)
FaultKinds == {"peer", "refuse", "full", "noise", "cancel", "drop"}

ASSUME ClientAssumption ==
    /\ Nobody \notin Requests
    /\ Numbers \in Nat \ {0}
    /\ Lengths \subseteq Nat
    /\ MaxDraws \in Nat /\ MaxConns \in Nat /\ MaxNoisy \in Nat
    /\ Faults \subseteq FaultKinds

Conns == 1..MaxConns

\* a request as it is written, and its answer: its number and, which the
\* program does not see, which draw of a number that was (0: none, noise only
\* looks like it)
Msg(n, d) == [num |-> n, of |-> d]

VARIABLES
    writer,   \* _writer: its connection, 0 for None
    loop,     \* the connection whose _recv_loop is running, 0 for none
    opened,   \* how many connections were opened
    noisy,    \* how often noise arrived
    link,     \* connections: up; eof, the vehicle closed it; reset; closed by us
    lock,     \* who holds _connect_lock
    queue,    \* _send_lock: its holder, then who waits for it
    last,     \* the request number drawn last
    drawn,    \* how many were drawn so far
    pending,  \* _pending: who waits for the answer with this number
    fut,      \* each request's future: none, lost or given
    num,      \* its number
    mine,     \* which draw that was (history)
    answer,   \* which draw the answer it was given belongs to (history)
    shared,   \* those whose number another one under way drew too (history)
    pc,       \* what it does next
    tries,    \* its attempt
    on,       \* the connection whose buffer it waits for
    got,      \* connections: the requests the vehicle has to answer
    stream,   \* connections: the bytes on their way to us
    buf,      \* connections: what _recv_loop keeps
    sent,     \* connections: what is to be found in them, in order (history)
    owed,     \* connections: cells a false header still swallows (history)
    wrote     \* how often each request was written to each connection (history)

conn == <<writer, loop, opened, noisy, link>>
draws == <<last, drawn>>
table == <<last, drawn, pending, fut, num, mine, answer, shared>>
wires == <<got, stream, buf, sent, owed>>
vars == <<writer, loop, opened, noisy, link, lock, queue, last, drawn, pending, fut, num,
          mine, answer, shared, pc, tries, on, got, stream, buf, sent, owed, wrote>>

Unwritten == [k \in Conns |-> 0]

Init ==
    /\ writer = 0 /\ loop = 0 /\ opened = 0 /\ noisy = 0
    /\ link = [k \in Conns |-> "closed"]
    /\ lock = Nobody
    /\ queue = <<>>
    /\ last = 0 /\ drawn = 0
    /\ pending = [n \in 1..Numbers |-> Nobody]
    /\ fut = [r \in Requests |-> "none"]
    /\ num = [r \in Requests |-> 0]
    /\ mine = [r \in Requests |-> 0]
    /\ answer = [r \in Requests |-> 0]
    /\ shared = {}
    /\ pc = [r \in Requests |-> "idle"]
    /\ tries = [r \in Requests |-> 1]
    /\ on = [r \in Requests |-> 0]
    /\ got = [k \in Conns |-> {}]
    /\ stream = [k \in Conns |-> <<>>]
    /\ buf = [k \in Conns |-> <<>>]
    /\ sent = [k \in Conns |-> <<>>]
    /\ owed = [k \in Conns |-> 0]
    /\ wrote = [r \in Requests |-> Unwritten]

\* is_connected
Connected == writer # 0 /\ link[writer] \in {"up", "eof"} /\ loop # 0

Goto(r, label) == pc' = [pc EXCEPT ![r] = label]

-----------------------------------------------------------------------------
(* The table of requests *)

Rejected == [r \in Requests |-> IF \E n \in DOMAIN pending : pending[n] = r
                                THEN "lost" ELSE fut[r]]
NobodyPending == [n \in DOMAIN pending |-> Nobody]

\* mutant of RejectAll: the futures are forgotten, not rejected
ForgetAll == pending' = NobodyPending /\ fut' = fut

RejectAll == pending' = NobodyPending /\ fut' = Rejected

\* nothing more comes over connection k
Silence(k) ==
    /\ got' = [got EXCEPT ![k] = {}]
    /\ stream' = [stream EXCEPT ![k] = <<>>]
    /\ buf' = [buf EXCEPT ![k] = <<>>]
    /\ sent' = [sent EXCEPT ![k] = <<>>]
    /\ owed' = [owed EXCEPT ![k] = 0]

\* _close_silent: the loop, then the transport, then all who wait
CloseSilent ==
    /\ writer' = 0
    /\ loop' = 0
    /\ IF writer = 0 THEN UNCHANGED <<link, wires>>
       ELSE link' = [link EXCEPT ![writer] = "closed"] /\ Silence(writer)
    /\ RejectAll
    /\ UNCHANGED <<opened, noisy>>

\* mutant of NextNumber: the numbers run out one too early
NextNumberShort == IF last + 1 >= Numbers THEN 1 ELSE last + 1

\* mutant of NextNumber: the numbers do not wrap
NextNumberGrows == last + 1

\* _next_req_id: 0 is skipped
NextNumber == IF last = Numbers THEN 1 ELSE last + 1

\* finally: self._pending.pop(req_id, None)
Pop(r) == [n \in DOMAIN pending |-> IF n = num[r] THEN Nobody ELSE pending[n]]

\* r has no number any more
Forgets(r) ==
    /\ num' = [num EXCEPT ![r] = 0]
    /\ mine' = [mine EXCEPT ![r] = 0]
    /\ answer' = [answer EXCEPT ![r] = 0]
    /\ shared' = shared \ {r}
    /\ UNCHANGED draws

\* the request is over, and its coroutine may send the next one
Ends(r) ==
    /\ Goto(r, "idle")
    /\ pending' = Pop(r)
    /\ fut' = [fut EXCEPT ![r] = "none"]
    /\ Forgets(r)
    /\ on' = [on EXCEPT ![r] = 0]
    /\ tries' = [tries EXCEPT ![r] = 1]
    /\ wrote' = [wrote EXCEPT ![r] = Unwritten]

-----------------------------------------------------------------------------
(* send_request *)

\* the holder of _send_lock writes to connection k; rest waits for the lock.
\* drain() waits if the buffer is too full; what is written to a connection
\* the vehicle has closed is lost.
Writes(r, m, k, rest) ==
    /\ wrote' = [wrote EXCEPT ![r][k] = @ + 1]
    /\ got' = IF link[k] = "eof" THEN got ELSE [got EXCEPT ![k] = @ \cup {m}]
    /\ UNCHANGED <<stream, buf, sent, owed>>
    /\ \/ /\ Goto(r, "wait")
          /\ queue' = rest
          /\ UNCHANGED on
       \/ /\ "full" \in Faults
          /\ Goto(r, "drain")
          /\ queue' = <<r>> \o rest
          /\ on' = [on EXCEPT ![r] = k]

\* the next number is drawn, although another request under way may have it
Draws ==
    /\ drawn + noisy < MaxDraws
    /\ drawn' = drawn + 1
    /\ last' = NextNumber
Same == {q \in Requests : num[q] = NextNumber}

\* _send_and_wait over connection k, up to the first wait
Registers(r, k) ==
    /\ Draws
    /\ pending' = [pending EXCEPT ![NextNumber] = r]
    /\ num' = [num EXCEPT ![r] = NextNumber]
    /\ mine' = [mine EXCEPT ![r] = drawn + 1]
    /\ fut' = [fut EXCEPT ![r] = "none"]
    /\ shared' = shared \cup Same \cup (IF Same = {} THEN {} ELSE {r})
    /\ UNCHANGED answer
    /\ IF queue = <<>> THEN Writes(r, Msg(NextNumber, drawn + 1), k, <<>>)
       ELSE /\ Goto(r, "queue")
            /\ queue' = Append(queue, r)
            /\ UNCHANGED <<on, wires, wrote>>
    /\ UNCHANGED tries

\* the first attempt, and the second one 0.1 s after the first has failed
Begin(r) ==
    /\ pc[r] \in {"idle", "again"}
    /\ IF Connected THEN Registers(r, writer)
       ELSE /\ Goto(r, "connect")
            /\ UNCHANGED <<queue, table, tries, on, wires, wrote>>
    /\ UNCHANGED <<conn, lock>>

\* mutant of MayConnect: connections are opened side by side
MayConnectAnyway == TRUE

MayConnect == lock = Nobody

\* connect: another request may have connected while this one waited
Connect(r) ==
    /\ pc[r] = "connect"
    /\ MayConnect
    /\ IF Connected
       THEN Registers(r, writer) /\ UNCHANGED <<conn, lock>>
       ELSE /\ lock' = r
            /\ Goto(r, "opening")
            /\ CloseSilent
            /\ UNCHANGED <<queue, draws, num, mine, answer, shared, tries, on, wrote>>

Opens(r) ==
    /\ pc[r] = "opening"
    /\ opened < MaxConns
    /\ opened' = opened + 1
    /\ writer' = opened + 1
    /\ loop' = opened + 1
    /\ link' = [link EXCEPT ![opened + 1] = "up"]
    /\ lock' = Nobody
    /\ Registers(r, opened + 1)
    /\ UNCHANGED noisy

\* mutant of NotConnected: the second attempt takes the connection it finds
NotConnectedKeeps(r) ==
    /\ IF tries[r] = 1
       THEN /\ Goto(r, "again")
            /\ pending' = Pop(r)
            /\ fut' = [fut EXCEPT ![r] = "none"]
            /\ Forgets(r)
            /\ tries' = [tries EXCEPT ![r] = 2]
            /\ UNCHANGED <<on, wrote>>
       ELSE Ends(r)
    /\ UNCHANGED <<conn, wires, queue>>

\* SeerNotConnected: whatever connection there is by now is closed, outside
\* _connect_lock, before the second attempt; the second one raises
NotConnected(r) ==
    /\ IF tries[r] = 1
       THEN /\ Goto(r, "again")
            /\ writer' = 0
            /\ loop' = 0
            /\ IF writer = 0 THEN UNCHANGED <<link, wires>>
               ELSE link' = [link EXCEPT ![writer] = "closed"] /\ Silence(writer)
            /\ pending' = NobodyPending
            /\ fut' = [Rejected EXCEPT ![r] = "none"]
            /\ UNCHANGED <<opened, noisy>>
            /\ Forgets(r)
            /\ tries' = [tries EXCEPT ![r] = 2]
            /\ UNCHANGED <<on, wrote>>
       ELSE /\ Ends(r)
            /\ UNCHANGED <<conn, wires>>
    /\ UNCHANGED queue

OpenFails(r) ==
    /\ pc[r] = "opening"
    /\ "refuse" \in Faults \/ opened = MaxConns
    /\ lock' = Nobody
    /\ NotConnected(r)

\* r gets _send_lock at last and writes to the connection there is by now
WriteQueued(r) ==
    /\ pc[r] = "queue"
    /\ Head(queue) = r
    /\ writer # 0
    /\ link[writer] \in {"up", "eof"}
    /\ Writes(r, Msg(num[r], mine[r]), writer, Tail(queue))
    /\ UNCHANGED <<conn, lock, table, tries>>

DrainEnds(r) ==
    /\ pc[r] = "drain"
    /\ link[on[r]] = "up"
    /\ Goto(r, "wait")
    /\ queue' = Tail(queue)
    /\ on' = [on EXCEPT ![r] = 0]
    /\ UNCHANGED <<conn, lock, table, tries, wires, wrote>>

Answered(r) ==
    /\ pc[r] = "wait"
    /\ fut[r] = "given"
    /\ Ends(r)
    /\ UNCHANGED <<conn, lock, queue, wires>>

TimesOut(r) ==
    /\ pc[r] = "wait"
    /\ fut[r] = "none"
    /\ Ends(r)
    /\ UNCHANGED <<conn, lock, queue, wires>>

Lost(r) ==
    /\ pc[r] = "wait"
    /\ fut[r] = "lost"
    /\ NotConnected(r)
    /\ UNCHANGED lock

\* mutant of DrainBreaks: the send lock stays taken
DrainBreaksKeepsLock(r) ==
    /\ pc[r] = "drain"
    /\ link[on[r]] \in {"reset", "closed"}
    /\ Ends(r)
    /\ UNCHANGED <<conn, lock, queue, wires>>

\* drain() raises ConnectionResetError, which is no SeerClientError
DrainBreaks(r) ==
    /\ pc[r] = "drain"
    /\ link[on[r]] \in {"reset", "closed"}
    /\ Ends(r)
    /\ queue' = Tail(queue)
    /\ UNCHANGED <<conn, lock, wires>>

\* so does the write to a connection that is found broken, or to None
QueuedBreaks(r) ==
    /\ pc[r] = "queue"
    /\ Head(queue) = r
    /\ \/ /\ writer # 0 => link[writer] \in {"reset", "closed"}
          /\ UNCHANGED <<link, wires>>
       \/ /\ writer # 0 /\ link[writer] = "eof"
          /\ link' = [link EXCEPT ![writer] = "reset"]
          /\ Silence(writer)
    /\ Ends(r)
    /\ queue' = Tail(queue)
    /\ UNCHANGED <<writer, loop, opened, noisy, lock>>

BeginBreaks(r) ==
    /\ \/ pc[r] \in {"idle", "again"}
       \/ pc[r] = "connect" /\ MayConnect
    /\ Connected
    /\ queue = <<>>
    /\ link[writer] = "eof"
    /\ link' = [link EXCEPT ![writer] = "reset"]
    /\ Silence(writer)
    /\ Draws
    /\ pending' = [pending EXCEPT ![NextNumber] = Nobody]
    /\ shared' = shared \cup Same
    /\ Goto(r, "idle")
    /\ tries' = [tries EXCEPT ![r] = 1]
    /\ wrote' = [wrote EXCEPT ![r] = Unwritten]
    /\ UNCHANGED <<writer, loop, opened, noisy, lock, queue, fut, num, mine, answer, on>>

\* the caller's own time limit, at any point where the request waits
Cancel(r) ==
    /\ "cancel" \in Faults
    /\ pc[r] \in {"connect", "opening", "queue", "drain", "wait", "again"}
    /\ lock' = IF lock = r THEN Nobody ELSE lock
    /\ queue' = RemoveFirst(queue, r)
    /\ Ends(r)
    /\ UNCHANGED <<conn, wires>>

\* close(), called by the pool
Drop ==
    /\ "drop" \in Faults
    /\ lock = Nobody
    /\ writer # 0
    /\ CloseSilent
    /\ UNCHANGED <<lock, queue, draws, num, mine, answer, shared, pc, tries, on, wrote>>

-----------------------------------------------------------------------------
(* _recv_loop *)

\* a read returns some of the bytes there are; each packet goes to whoever
\* waits for its number, a second one with that number to nobody
Receive ==
    /\ loop # 0
    /\ link[loop] \in {"up", "eof"}
    /\ \E n \in 1..Len(stream[loop]) :
          LET data == buf[loop] \o SubSeq(stream[loop], 1, n)
              ps == Packets(data)
              nums == {ps[i].num : i \in DOMAIN ps}
              given == {r \in Requests : \E m \in nums : pending[m] = r}
              First(r) == Min({i \in DOMAIN ps : pending[ps[i].num] = r})
          IN /\ buf' = [buf EXCEPT ![loop] = Kept(data)]
             /\ stream' = [stream EXCEPT ![loop] = SubSeq(@, n + 1, Len(@))]
             /\ sent' = [sent EXCEPT ![loop] = SubSeq(@, Len(ps) + 1, Len(@))]
             /\ pending' = [m \in DOMAIN pending |->
                               IF m \in nums THEN Nobody ELSE pending[m]]
             /\ fut' = [r \in Requests |-> IF r \in given THEN "given" ELSE fut[r]]
             /\ answer' = [r \in Requests |-> IF r \in given THEN ps[First(r)].of ELSE answer[r]]
    /\ UNCHANGED <<conn, lock, queue, draws, num, mine, shared, pc, tries, on, got, owed, wrote>>

\* the end of the stream, or an error
LoopEnds ==
    /\ loop # 0
    /\ \/ link[loop] = "eof" /\ stream[loop] = <<>>
       \/ link[loop] = "reset"
    /\ RejectAll
    /\ link' = [link EXCEPT ![writer] = "closed"]
    /\ Silence(writer)
    /\ loop' = 0
    /\ UNCHANGED <<writer, opened, noisy, lock, queue, draws, num, mine, answer, shared, pc, tries, on, wrote>>

-----------------------------------------------------------------------------
(* The vehicle and the network (external) *)

\* cells arrive that hold the packets ms and begin a body of l cells.  What a
\* false header before them still swallows is not to be found again, and what
\* is left of them then is the end of a packet.
Brings(k, cells, ms, l) ==
    /\ stream' = [stream EXCEPT ![k] = @ \o cells]
    /\ IF owed[k] = 0
       THEN sent' = [sent EXCEPT ![k] = @ \o ms] /\ owed' = [owed EXCEPT ![k] = l]
       ELSE sent' = sent /\ owed' = [owed EXCEPT ![k] = Max({0, @ - Len(cells)})]

Answers(k) ==
    /\ link[k] = "up"
    /\ \E m \in got[k] : got' = [got EXCEPT ![k] = @ \ {m}] /\ Brings(k, Pack(m), <<m>>, 0)
    /\ UNCHANGED <<conn, lock, queue, table, pc, tries, on, buf, wrote>>

\* bytes of no packet, between packets: some without meaning, a start byte, or
\* what looks like a header, with any number and length: all that follows
\* belongs to its body (the first bytes of the next packet, too, that complete
\* the header)
Noise(k) ==
    /\ "noise" \in Faults
    /\ noisy < MaxNoisy /\ drawn + noisy < MaxDraws
    /\ noisy' = noisy + 1
    /\ link[k] = "up"
    /\ \/ \E cell \in {Junk, Start} : Brings(k, <<cell>>, <<>>, 0)
       \/ \E n \in 1..Numbers, l \in Lengths :
             Brings(k, <<Start, Header(Msg(n, 0), l)>>, <<Msg(n, 0)>>, l)
    /\ UNCHANGED <<writer, loop, opened, link, lock, queue, table, pc, tries, on, got, buf, wrote>>

PeerCloses(k) ==
    /\ "peer" \in Faults
    /\ link[k] = "up"
    /\ \/ /\ link' = [link EXCEPT ![k] = "eof"]
          /\ got' = [got EXCEPT ![k] = {}]
          /\ UNCHANGED <<stream, buf, sent, owed>>
       \/ /\ link' = [link EXCEPT ![k] = "reset"]
          /\ Silence(k)
    /\ UNCHANGED <<writer, loop, opened, noisy, lock, queue, table, pc, tries, on, wrote>>

-----------------------------------------------------------------------------
Request(r) == \/ Begin(r) \/ Connect(r) \/ Opens(r) \/ OpenFails(r)
              \/ WriteQueued(r) \/ DrainEnds(r) \/ DrainBreaks(r)
              \/ QueuedBreaks(r) \/ BeginBreaks(r)
              \/ Answered(r) \/ TimesOut(r) \/ Lost(r)

Next == \/ \E r \in Requests : Request(r) \/ Cancel(r)
        \/ Receive \/ LoopEnds \/ Drop
        \/ \E k \in Conns : Answers(k) \/ Noise(k) \/ PeerCloses(k)

Spec == Init /\ [][Next]_vars

-----------------------------------------------------------------------------
(* Properties *)

Waiting == {"queue", "drain", "wait"}

\* Every variable holds a value of its kind.
STypeOK ==
    /\ writer \in 0..MaxConns /\ loop \in 0..MaxConns /\ opened \in 0..MaxConns
    /\ noisy \in 0..MaxNoisy
    /\ link \in [Conns -> {"up", "eof", "reset", "closed"}]
    /\ lock \in Requests \cup {Nobody}
    /\ queue \in Seq(Requests)
    /\ last \in 0..Numbers /\ drawn \in 0..MaxDraws
    /\ pending \in [1..Numbers -> Requests \cup {Nobody}]
    /\ fut \in [Requests -> {"none", "lost", "given"}]
    /\ num \in [Requests -> 0..Numbers]
    /\ mine \in [Requests -> 0..MaxDraws] /\ answer \in [Requests -> 0..MaxDraws]
    /\ shared \subseteq Requests
    /\ pc \in [Requests -> {"idle", "again", "connect", "opening"} \cup Waiting]
    /\ tries \in [Requests -> 1..2]
    /\ on \in [Requests -> 0..MaxConns]

\* Nobody waits for an answer that cannot come: a request whose future is
\* open is in the table under its number, a receive loop runs, and if it was
\* written, it was written to the connection that loop reads.  Four parties
\* clear that table (the loop, a failed request, connect, the pool), and the
\* connection may change while a request waits for the send lock.  (Of two
\* requests with one number at a time the first one waits in vain; the client
\* takes it that a round of its numbers never meets a request under way.)
Served ==
    \A r \in Requests \ shared : pc[r] \in Waiting /\ fut[r] = "none" =>
        /\ pending[num[r]] = r
        /\ loop # 0 /\ loop = writer
        /\ pc[r] # "queue" => wrote[r][loop] = 1

\* Numbers are reused for ever, answers come late, and requests are written a
\* second time under a new number.  Yet the answer a request is given is its
\* own, or what only noise has made look like one, or so late that all numbers
\* were drawn since it was asked for; never that of another request within a
\* round of the numbers.
AnswerIsOwn ==
    \A r \in Requests : fut[r] = "given" =>
        answer[r] \in {mine[r], 0} \/ answer[r] + Numbers <= mine[r]

\* A request never goes out twice on one connection: a vehicle sees a command
\* again only over a new one, after the old broke.
WrittenOnce == \A r \in Requests : \A k \in Conns : wrote[r][k] <= 1

\* At most one connection is open, the one in use: none is left open behind.
OneConnection == \A k \in Conns : link[k] \in {"up", "eof"} => k = writer

\* However the stream is cut into reads, the loop finds the packets that were
\* sent, in their order.  Noise between them that has no header costs none; what
\* looks like a header costs those that its length covers, wholly or in part,
\* and no other: behind them the loop is back in step.
PacketsIntact ==
    loop # 0 => Packets(buf[loop] \o stream[loop]) =
                    IF owed[loop] = 0 THEN sent[loop] ELSE Front(sent[loop])

\* A lock is held by a request that is about to give it back, and nobody else
\* waits in a request's place: no failure, reconnection or cancellation leaves
\* _connect_lock or _send_lock taken, which would block all requests for ever.
LocksMove ==
    /\ lock # Nobody => pc[lock] = "opening"
    /\ \A r \in Requests :
          /\ pc[r] = "opening" => lock = r
          /\ pc[r] \in {"queue", "drain"} <=> \E i \in DOMAIN queue : queue[i] = r
    /\ \A i, j \in DOMAIN queue : queue[i] = queue[j] => i = j
    /\ \A i \in DOMAIN queue : pc[queue[i]] = "drain" => i = 1

=============================================================================
