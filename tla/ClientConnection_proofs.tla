----------------------- MODULE ClientConnection_proofs -----------------------
(***************************************************************************)
(* Proofs about the connection of a client, for any number of losses and   *)
(* packets and any sizes of the buffers.                                   *)
(*                                                                         *)
(* ReconnectIsArmed: Armed says in each phase of Start how the flags, the  *)
(* listener and the posted calls go together; raced is excepted, as in the *)
(* property itself.                                                        *)
(*                                                                         *)
(* The stream: Line is what is on its way, from circBuf_ through the socket*)
(* to the packet being sent.  Unless it was torn it is a row of packets    *)
(* that begins where OnReadPackets looks next (Well), so every step either *)
(* leaves it alone, adds a packet at its end or takes one from its begin.  *)
(***************************************************************************)
EXTENDS ClientConnection, SequenceTheorems, TLAPS

ConnTypes ==
  /\ conn \in Nat /\ fd_ \in Nat
  /\ phase \in {"new", "connected", "started"}
  /\ eventHandler_ \in Handlers \union {NoHandler}
  /\ listener \in [Handlers -> Nat]
  /\ reconnects \in [Handlers -> Nat]
  /\ raced \in BOOLEAN

\* Before StartClient nothing happened.
Fresh ==
  phase = "new" =>
    /\ calls = {} /\ fd_ = 0 /\ reading = "idle" /\ ~isRunning_ /\ ~isListening_
    /\ \A h \in Handlers : reconnects[h] = 0

\* Between the two steps of Start there is a connection.
Half ==
  phase = "connected" /\ ~raced =>
    /\ fd_ = conn /\ conn # 0 /\ isConnected_
    /\ \A h \in Handlers : reconnects[h] = 0
    /\ isListening_ <=> eventHandler_ # NoHandler
    /\ isListening_ => isRunning_ /\ listener[eventHandler_] = fd_

\* Afterwards there is a connection that is listened to, or a posted call.
Full ==
  phase = "started" /\ ~raced =>
    /\ eventHandler_ # NoHandler
    /\ \A h \in Handlers \ {eventHandler_} : reconnects[h] = 0
    /\ IF fd_ = 0 THEN reconnects[eventHandler_] = 1 /\ ~isRunning_
       ELSE /\ reconnects[eventHandler_] = 0
            /\ fd_ = conn /\ isRunning_
            /\ \E h \in Handlers : listener[h] = fd_

Armed == ConnTypes /\ Fresh /\ Half /\ Full

LEMMA InitArmed == Init => Armed
<1> SUFFICES ASSUME Init PROVE Armed
  OBVIOUS
<1> USE DEF Init, StreamInit
<1>1. ConnTypes
  BY DEF ConnTypes, Handlers
<1>2. Fresh
  BY DEF Fresh, Handlers
<1>3. Half /\ Full
  BY DEF Half, Full
<1> QED
  BY <1>1, <1>2, <1>3 DEF Armed

LEMMA ArmedKeeps == Armed /\ [Next]_vars => Armed'
<1> SUFFICES ASSUME Armed, [Next]_vars PROVE Armed'
  OBVIOUS
<1> USE ConnectionAssumption DEF Handlers
<1>1. CASE UNCHANGED <<conn, phase, eventHandler_, listener, reconnects, raced, calls,
                       fd_, reading, isRunning_, isListening_, isConnected_>>
  BY <1>1 DEF Armed, ConnTypes, Fresh, Half, Full
<1>2. ASSUME ServiceSends \/ ServiceDies \/ ServiceStarts \/ SessionEnds
      PROVE  Armed'
  <2>1. UNCHANGED <<conn, phase, eventHandler_, listener, reconnects, raced, calls,
                    fd_, reading, isRunning_, isListening_, isConnected_>>
    BY <1>2 DEF ServiceSends, SendSome, SendMsg, ServiceDies, ServiceStarts,
                SessionEnds, stream, service, client, flags, posted
  <2> QED
    BY <2>1, <1>1
<1>3. ASSUME StartClient PROVE Armed'
  BY <1>3 DEF StartClient, NewConnection, OnConnected, AddFdListener,
              Armed, ConnTypes, Fresh, Half, Full
<1>4. ASSUME StartEventRunner PROVE Armed'
  <2> USE DEF Armed
  <2>1. PICK h \in {eventHandler_, Own} \ {NoHandler} :
          /\ eventHandler_' = h
          /\ IF isConnected_ /\ fd_ # 0
             THEN /\ IF isListening_ THEN UNCHANGED <<listener, isRunning_>>
                     ELSE AddFdListener(h, fd_)
                  /\ UNCHANGED reconnects
             ELSE /\ reconnects' = [reconnects EXCEPT ![h] = @ + 1]
                  /\ UNCHANGED <<listener, isRunning_>>
    BY <1>4 DEF StartEventRunner
  <2>2. /\ phase = "connected" /\ phase' = "started"
        /\ conn' = conn /\ fd_' = fd_ /\ raced' = raced /\ calls' = calls
    BY <1>4 DEF StartEventRunner, service
  <2>3. h \in Handlers /\ conn \in Nat /\ fd_ \in Nat /\ raced \in BOOLEAN
    BY DEF ConnTypes
  <2>4. listener' \in [Handlers -> Nat] /\ reconnects' \in [Handlers -> Nat]
    <3>1. CASE isConnected_ /\ fd_ # 0
      <4>1. CASE isListening_
        BY <2>1, <3>1, <4>1 DEF ConnTypes
      <4>2. CASE ~isListening_ /\ raced
        BY <2>1, <2>3, <3>1, <4>2 DEF ConnTypes, AddFdListener
      <4>3. CASE ~isListening_ /\ ~raced
        BY <2>1, <2>2, <2>3, <3>1, <4>3 DEF ConnTypes, AddFdListener, Half
      <4> QED
        BY <4>1, <4>2, <4>3, <2>3
    <3>2. CASE ~(isConnected_ /\ fd_ # 0)
      BY <2>1, <2>3, <3>2 DEF ConnTypes
    <3> QED
      BY <3>1, <3>2
  <2>5. ConnTypes'
    BY <2>1, <2>2, <2>3, <2>4 DEF ConnTypes
  <2>6. Full'
    <3> SUFFICES ASSUME ~raced
                 PROVE  /\ \A k \in Handlers : reconnects'[k] = 0
                        /\ fd_ = conn /\ fd_ # 0 /\ isRunning_'
                        /\ \E k \in Handlers : listener'[k] = fd_
      BY <2>2, <2>1, <2>3 DEF Full
    <3>1. /\ fd_ = conn /\ conn # 0 /\ isConnected_
          /\ \A k \in Handlers : reconnects[k] = 0
          /\ isListening_ <=> eventHandler_ # NoHandler
          /\ isListening_ => isRunning_ /\ listener[eventHandler_] = fd_
      BY <2>2 DEF Half
    <3>2. CASE isListening_
      BY <2>1, <3>1, <3>2 DEF ConnTypes
    <3>3. CASE ~isListening_
      BY <2>1, <2>3, <3>1, <3>3 DEF ConnTypes, AddFdListener
    <3> QED
      BY <3>2, <3>3
  <2> QED
    BY <2>2, <2>5, <2>6 DEF Fresh, Half
<1>5. ASSUME FdEvent PROVE Armed'
  <2>1. phase # "new"
    BY <1>5 DEF FdEvent, Armed, Fresh
  <2> QED
    BY <1>5, <2>1 DEF FdEvent, service, flags, posted, Armed, ConnTypes, Fresh, Half, Full
<1>6. ASSUME OnReadable PROVE Armed'
  <2>1. phase # "new"
    BY <1>6 DEF OnReadable, ReadStep, Recv, RecvNothing, ParseWaits, ParseResets,
                ParseDelivers, Armed, Fresh
  <2> QED
    BY <1>6, <2>1 DEF OnReadable, service, client, flags, posted,
                      Armed, ConnTypes, Fresh, Half, Full
<1>7. ASSUME NEW call \in {"OnShutdown", "OnException"}, OnDisconnected(call)
      PROVE  Armed'
  <2>1. phase # "new"
    BY <1>7 DEF OnDisconnected, Armed, Fresh
  <2>2. ConnTypes'
    BY <1>7 DEF OnDisconnected, DelFdListener, posted, Armed, ConnTypes
  <2>3. CASE phase = "connected"
    BY <1>7, <2>1, <2>2, <2>3 DEF OnDisconnected, Armed, Fresh, Half, Full
  <2>4. CASE phase = "started"
    BY <1>7, <2>2, <2>4
       DEF OnDisconnected, DelFdListener, posted, Armed, ConnTypes, Fresh, Half, Full
  <2> QED
    BY <2>1, <2>3, <2>4 DEF Armed, ConnTypes
<1>8. ASSUME NEW h \in Handlers, ReconnectSucceeds(h) PROVE Armed'
  <2>1. phase # "new" /\ (phase = "connected" => raced)
    BY <1>8 DEF ReconnectSucceeds, Armed, ConnTypes, Fresh, Half
  <2>2. ConnTypes'
    BY <1>8 DEF ReconnectSucceeds, NewConnection, OnConnected, AddFdListener,
                Armed, ConnTypes
  <2>3. CASE phase = "started" /\ ~raced
    <3>1. h = eventHandler_ /\ fd_ = 0 /\ ~isRunning_ /\ reconnects[h] = 1
      BY <1>8, <2>3 DEF ReconnectSucceeds, Armed, ConnTypes, Full
    <3> QED
      BY <1>8, <2>2, <2>3, <3>1
         DEF ReconnectSucceeds, NewConnection, OnConnected, AddFdListener,
             Armed, ConnTypes, Fresh, Half, Full
  <2>4. CASE raced
    BY <1>8, <2>1, <2>2, <2>4 DEF ReconnectSucceeds, Armed, Fresh, Half, Full
  <2> QED
    BY <2>1, <2>3, <2>4 DEF Armed, ConnTypes
<1>9. ASSUME NEW h \in Handlers, ReconnectFails(h) PROVE Armed'
  <2>1. phase # "new" /\ (phase = "connected" => raced)
    BY <1>9 DEF ReconnectFails, Armed, ConnTypes, Fresh, Half
  <2>2. ConnTypes'
    <3>1. reconnects' \in [Handlers -> Nat]
      <4>1. reconnects[h] \in Nat \ {0} /\ reconnects \in [Handlers -> Nat]
        BY <1>9 DEF ReconnectFails, Armed, ConnTypes
      <4>2. reconnects' = [reconnects EXCEPT ![h] = @ - 1, ![eventHandler_] = @ + 1]
        BY <1>9 DEF ReconnectFails
      <4>3. CASE eventHandler_ = h
        BY <4>1, <4>2, <4>3
      <4>4. CASE eventHandler_ # h
        <5>1. \A k \in Handlers :
                reconnects'[k] = IF k = h THEN reconnects[h] - 1
                                 ELSE IF k = eventHandler_ THEN reconnects[k] + 1
                                 ELSE reconnects[k]
          BY <4>1, <4>2, <4>4
        <5>2. reconnects' = [k \in Handlers |-> reconnects'[k]]
          BY <4>1, <4>2
        <5>3. \A k \in Handlers : reconnects'[k] \in Nat
          BY <4>1, <5>1
        <5> QED
          BY <5>2, <5>3
      <4> QED
        BY <4>3, <4>4
    <3> QED
      BY <1>9, <3>1 DEF ReconnectFails, service, flags, Armed, ConnTypes
  <2>3. CASE phase = "started" /\ ~raced
    <3>1. h = eventHandler_ /\ fd_ = 0 /\ reconnects[h] = 1
      BY <1>9, <2>3 DEF ReconnectFails, Armed, ConnTypes, Full
    <3> QED
      BY <1>9, <2>2, <2>3, <3>1
         DEF ReconnectFails, stream, service, flags, Armed, ConnTypes, Fresh, Half, Full
  <2>4. CASE raced
    BY <1>9, <2>1, <2>2, <2>4 DEF ReconnectFails, Armed, Fresh, Half, Full
  <2> QED
    BY <2>1, <2>3, <2>4 DEF Armed, ConnTypes
<1>10. CASE UNCHANGED vars
  BY <1>1, <1>10 DEF vars, stream, service, client, flags, posted
<1> QED
  BY <1>2, <1>3, <1>4, <1>5, <1>6, <1>7, <1>8, <1>9, <1>10 DEF Next

\* A client that has no connection has exactly one call of OnReconnect posted,
\* and one that has a connection has none and listens.
THEOREM ReconnectIsAlwaysArmed == Spec => []ReconnectIsArmed
<1>1. Armed => ReconnectIsArmed
  BY ConnectionAssumption
     DEF Armed, ConnTypes, Full, ReconnectIsArmed, Posted, Listens, Handlers
<1> QED
  BY <1>1, InitArmed, ArmedKeeps, PTL DEF Spec
-----------------------------------------------------------------------------
ByteAt(b, n) == [packet |-> b.packet, at |-> n, size |-> b.size]

\* Well: the bytes of s that belong to one packet are there from the first on,
\* in order and without others in between, and packets follow in order.
Valid(s, m) ==
  \A i \in 1 .. Len(s) :
    s[i].packet <= m /\ s[i].size \in Sizes /\ s[i].at <= s[i].size
Blocks(s) ==
  \A i, j \in 1 .. Len(s) :
    LET at == s[i].at + (j - i) IN
      /\ at \in 1 .. s[i].size => s[j] = ByteAt(s[i], at)
      /\ at > s[i].size => s[j].packet > s[i].packet
Begins(s) == \A i \in 1 .. Len(s) : s[i].at <= i
Well(s, m) == Valid(s, m) /\ Blocks(s) /\ Begins(s)

\* The last packet is complete.
Ends(s) == \A i \in 1 .. Len(s) : i + (s[i].size - s[i].at) <= Len(s)

LEMMA Fields ==
  ASSUME NEW b \in Byte
  PROVE  /\ b.packet \in Nat \ {0} /\ b.at \in Nat \ {0} /\ b.size \in Nat \ {0}
         /\ b = [packet |-> b.packet, at |-> b.at, size |-> b.size]
BY DEF Byte

LEMMA Heads ==
  ASSUME NEW s \in Seq(Byte), NEW m \in Int, Well(s, m), s # << >>
  PROVE  /\ Len(s) \in Nat \ {0} /\ s[1] \in Byte
         /\ s[1].at = 1 /\ s[1].size \in Sizes /\ s[1].packet <= m
         /\ \A j \in 1 .. Len(s) : j <= s[1].size => s[j] = ByteAt(s[1], j)
         /\ \A j \in 1 .. Len(s) : j > s[1].size => s[j].packet > s[1].packet
<1>1. Len(s) \in Nat \ {0} /\ s[1] \in Byte
  BY EmptySeq, ElementOfSeq
<1>2. s[1].at = 1 /\ s[1].size \in Sizes /\ s[1].packet <= m
  BY <1>1 DEF Well, Valid, Begins, Byte
<1>3. ASSUME NEW j \in 1 .. Len(s)
      PROVE  /\ j <= s[1].size => s[j] = ByteAt(s[1], j)
             /\ j > s[1].size => s[j].packet > s[1].packet
  <2>1. s[1].at + (j - 1) = j /\ 1 \in 1 .. Len(s) /\ s[1].size \in Nat
    BY <1>1, <1>2 DEF Byte
  <2> QED
    BY <2>1, <1>1, <1>2 DEF Well, Blocks
<1> QED
  BY <1>1, <1>2, <1>3

LEMMA Prefixes ==
  ASSUME NEW s \in Seq(Byte), NEW m \in Int, Well(s, m), NEW p \in Seq(Byte),
         Len(p) <= Len(s), \A i \in 1 .. Len(p) : p[i] = s[i]
  PROVE  Well(p, m)
<1>1. Len(p) \in Nat /\ Len(s) \in Nat
  BY LenProperties
<1>2. Valid(p, m) /\ Begins(p)
  BY <1>1 DEF Well, Valid, Begins
<1>3. Blocks(p)
  <2> SUFFICES ASSUME NEW i \in 1 .. Len(p), NEW j \in 1 .. Len(p)
               PROVE  LET at == p[i].at + (j - i) IN
                        /\ at \in 1 .. p[i].size => p[j] = ByteAt(p[i], at)
                        /\ at > p[i].size => p[j].packet > p[i].packet
    BY DEF Blocks
  <2>1. /\ i \in 1 .. Len(s) /\ j \in 1 .. Len(s)
        /\ p[i] = s[i] /\ p[j] = s[j]
    BY <1>1
  <2>2. Blocks(s)
    BY DEF Well
  <2> QED
    BY <2>1, <2>2 DEF Blocks
<1> QED
  BY <1>2, <1>3 DEF Well

\* What is left when the first packet is taken.
LEMMA Suffixes ==
  ASSUME NEW s \in Seq(Byte), NEW m \in Int, Well(s, m), s # << >>,
         s[1].size <= Len(s), NEW p \in Seq(Byte),
         Len(p) = Len(s) - s[1].size,
         \A i \in 1 .. Len(p) : p[i] = s[i + s[1].size]
  PROVE  /\ Well(p, m)
         /\ \A i \in 1 .. Len(p) : p[i].packet > s[1].packet
         /\ Ends(s) => Ends(p)
<1> DEFINE n == s[1].size
<1>1. /\ Len(s) \in Nat \ {0} /\ s[1] \in Byte /\ n \in Nat \ {0}
      /\ Len(p) \in Nat /\ Len(p) = Len(s) - n
      /\ \A i \in 1 .. Len(p) : i + n \in 1 .. Len(s) /\ p[i] = s[i + n] /\ p[i] \in Byte
  <2>1. Len(s) \in Nat \ {0} /\ s[1] \in Byte /\ n \in Nat \ {0}
    BY Heads DEF Byte
  <2>2. Len(p) \in Nat /\ Len(p) = Len(s) - n
    BY LenProperties
  <2>3. \A i \in 1 .. Len(p) : p[i] \in Byte
    BY ElementOfSeq
  <2>4. \A i \in 1 .. Len(p) : i + n \in 1 .. Len(s)
    BY <2>1, <2>2
  <2> QED
    BY <2>1, <2>2, <2>3, <2>4
<1>2. \A i \in 1 .. Len(p) : p[i].packet > s[1].packet
  <2> TAKE i \in 1 .. Len(p)
  <2>1. i + n \in 1 .. Len(s) /\ i + n > n /\ p[i] = s[i + n]
    BY <1>1
  <2>2. \A j \in 1 .. Len(s) : j > s[1].size => s[j].packet > s[1].packet
    BY Heads
  <2> QED
    BY <2>1, <2>2
<1>3. Valid(p, m)
  BY <1>1 DEF Well, Valid
<1>4. Blocks(p)
  <2> SUFFICES ASSUME NEW i \in 1 .. Len(p), NEW j \in 1 .. Len(p)
               PROVE  LET at == p[i].at + (j - i) IN
                        /\ at \in 1 .. p[i].size => p[j] = ByteAt(p[i], at)
                        /\ at > p[i].size => p[j].packet > p[i].packet
    BY DEF Blocks
  <2>1. /\ i + n \in 1 .. Len(s) /\ p[i] = s[i + n]
        /\ j + n \in 1 .. Len(s) /\ p[j] = s[j + n] /\ (j + n) - (i + n) = j - i
    BY <1>1
  <2> HIDE DEF n
  <2> QED
    BY <2>1 DEF Well, Blocks
<1>5. Begins(p)
  <2> SUFFICES ASSUME NEW i \in 1 .. Len(p), p[i].at > i PROVE FALSE
    <3>1. \A i \in 1 .. Len(p) : p[i].at \in Nat
      BY <1>1 DEF Byte
    <3> QED
      BY <3>1 DEF Begins
  <2> DEFINE j == (i + n) - p[i].at + 1
  <2>1. p[i] = s[i + n] /\ i + n \in 1 .. Len(s) /\ p[i] \in Byte
    BY <1>1
  <2>2. p[i].at <= i + n
    BY <2>1 DEF Well, Begins
  <2>3. p[i].at \in Nat \ {0} /\ p[i].size \in Nat \ {0}
    BY <2>1, Fields
  <2>4. j \in 1 .. n /\ j \in 1 .. Len(s)
    <3> HIDE DEF n
    <3> QED
      BY <1>1, <2>2, <2>3
  <2>8. s[i + n].at + (j - (i + n)) = 1 /\ 1 \in 1 .. s[i + n].size
    <3> HIDE DEF n
    <3> QED
      BY <1>1, <2>1, <2>3
  <2>5. s[j] = ByteAt(s[i + n], 1)
    <3> HIDE DEF j, n
    <3> QED
      BY <2>1, <2>4, <2>8 DEF Well, Blocks
  <2>6. s[j] = ByteAt(s[1], j)
    BY <2>4, Heads
  <2>7. s[i + n].packet > s[1].packet
    BY <2>1, <1>2
  <2> QED
    <3>1. s[j].packet = s[i + n].packet /\ s[j].packet = s[1].packet
      BY <2>5, <2>6 DEF ByteAt
    <3>2. s[1].packet \in Nat /\ p[i].packet = s[i + n].packet
      BY <2>1, <1>1, Fields
    <3> QED
      BY <3>1, <3>2, <2>7
<1>6. ASSUME Ends(s) PROVE Ends(p)
  <2> SUFFICES ASSUME NEW i \in 1 .. Len(p)
               PROVE  i + (p[i].size - p[i].at) <= Len(p)
    BY DEF Ends
  <2>1. i + n \in 1 .. Len(s) /\ p[i] = s[i + n] /\ p[i] \in Byte
    BY <1>1
  <2>2. (i + n) + (p[i].size - p[i].at) <= Len(s)
    BY <1>6, <2>1 DEF Ends
  <2>3. p[i].at \in Nat /\ p[i].size \in Nat
    BY <2>1, Fields
  <2> HIDE DEF n
  <2> QED
    BY <1>1, <2>2, <2>3
<1> QED
  BY <1>2, <1>3, <1>4, <1>5, <1>6 DEF Well

\* A new packet.
LEMMA NewPackets ==
  ASSUME NEW s \in Seq(Byte), NEW m \in Nat, Well(s, m), Ends(s), NEW n \in Sizes
  PROVE  /\ Packet(m + 1, n) \in Seq(Byte)
         /\ Len(Packet(m + 1, n)) = n
         /\ Well(s \o Packet(m + 1, n), m + 1)
         /\ Ends(s \o Packet(m + 1, n))
<1> DEFINE q == Packet(m + 1, n)
           r == s \o q
           l == Len(s)
           B(k) == [packet |-> m + 1, at |-> k, size |-> n]
<1>1. n \in Nat \ {0}
  BY StreamAssumption DEF Sizes
<1>2. q \in Seq(Byte) /\ Len(q) = n /\ \A k \in 1 .. n : q[k] = B(k)
  BY <1>1 DEF Packet, Byte
<1>3. /\ l \in Nat /\ Len(r) = l + n
      /\ \A i \in 1 .. l : r[i] = s[i] /\ s[i] \in Byte
      /\ \A i \in (l + 1) .. (l + n) :
           /\ r[i] = [packet |-> m + 1, at |-> i - l, size |-> n]
           /\ r[i].packet = m + 1 /\ r[i].at = i - l /\ r[i].size = n
  <2>1. l \in Nat /\ Len(r) = l + n
    BY <1>1, <1>2, ConcatProperties, LenProperties
  <2>2. \A i \in 1 .. l + n : r[i] = IF i <= l THEN s[i] ELSE q[i - l]
    BY <1>1, <1>2, ConcatProperties
  <2>3. \A i \in (l + 1) .. (l + n) : i - l \in 1 .. n /\ r[i] = q[i - l]
    BY <1>1, <2>1, <2>2
  <2>4. \A i \in 1 .. l : r[i] = s[i] /\ s[i] \in Byte
    BY <1>1, <2>1, <2>2, ElementOfSeq
  <2> QED
    BY <1>2, <2>1, <2>3, <2>4
<1> HIDE DEF q, r, l
<1>8. ASSUME NEW i \in 1 .. Len(r)
      PROVE  \/ /\ i \in 1 .. l
                /\ r[i].packet \in Nat /\ r[i].at \in Nat \ {0} /\ r[i].size \in Nat
                /\ r[i].packet <= m /\ r[i].size \in Sizes /\ r[i].at <= r[i].size
                /\ r[i].at <= i /\ i + (r[i].size - r[i].at) <= l
             \/ /\ i \in (l + 1) .. (l + n)
                /\ r[i].packet = m + 1 /\ r[i].at = i - l /\ r[i].size = n
  <2>1. CASE i <= l
    <3>1. i \in 1 .. l /\ r[i] = s[i] /\ s[i] \in Byte
      BY <2>1, <1>3
    <3> QED
      <4>1. s[i].packet \in Nat /\ s[i].at \in Nat \ {0} /\ s[i].size \in Nat
        BY <3>1, Fields
      <4>2. /\ s[i].packet <= m /\ s[i].size \in Sizes /\ s[i].at <= s[i].size
            /\ s[i].at <= i /\ i + (s[i].size - s[i].at) <= l
        BY <3>1 DEF Well, Valid, Begins, Ends, l
      <4> QED
        BY <3>1, <4>1, <4>2
  <2>2. CASE i > l
    <3>1. i \in (l + 1) .. (l + n)
      BY <2>2, <1>1, <1>3
    <3> QED
      BY <3>1, <1>3
  <2> QED
    BY <1>3, <2>1, <2>2
<1>4. Valid(r, m + 1)
  <2> SUFFICES ASSUME NEW i \in 1 .. Len(r)
               PROVE  r[i].packet <= m + 1 /\ r[i].size \in Sizes /\ r[i].at <= r[i].size
    BY DEF Valid
  <2> QED
    BY <1>1, <1>3, <1>8
<1>5. Begins(r)
  <2> SUFFICES ASSUME NEW i \in 1 .. Len(r) PROVE r[i].at <= i
    BY DEF Begins
  <2> QED
    BY <1>1, <1>3, <1>8
<1>6. Ends(r)
  <2> SUFFICES ASSUME NEW i \in 1 .. Len(r) PROVE i + (r[i].size - r[i].at) <= Len(r)
    BY DEF Ends
  <2>1. Len(r) = l + n /\ l \in Nat /\ n \in Nat
    BY <1>1, <1>3
  <2>2. CASE i \in 1 .. l
    <3>1. i + (r[i].size - r[i].at) <= l /\ r[i].at \in Nat /\ r[i].size \in Nat
      BY <1>8, <2>1, <2>2
    <3> QED
      BY <2>1, <3>1
  <2>3. CASE i \in (l + 1) .. (l + n)
    <3>1. r[i].at = i - l /\ r[i].size = n
      BY <1>3, <2>3
    <3> QED
      BY <2>1, <2>3, <3>1
  <2> QED
    BY <2>1, <2>2, <2>3
<1>7. Blocks(r)
  <2> SUFFICES ASSUME NEW i \in 1 .. Len(r), NEW j \in 1 .. Len(r)
               PROVE  LET at == r[i].at + (j - i) IN
                        /\ at \in 1 .. r[i].size => r[j] = ByteAt(r[i], at)
                        /\ at > r[i].size => r[j].packet > r[i].packet
    BY DEF Blocks
  <2>1. CASE i <= l /\ j <= l
    BY <2>1, <1>3 DEF Well, Blocks, l
  <2>2. CASE i <= l /\ j > l
    <3>1. j \in (l + 1) .. (l + n) /\ l \in Nat
      BY <2>2, <1>1, <1>3
    <3>2. r[j].packet = m + 1
      BY <1>3, <3>1
    <3>3. /\ r[i].packet \in Nat /\ r[i].at \in Nat /\ r[i].size \in Nat
          /\ r[i].packet <= m /\ i + (r[i].size - r[i].at) <= l
      BY <2>2, <1>3, <1>8
    <3> DEFINE a == r[i].at
               z == r[i].size
    <3>4. a \in Nat /\ z \in Nat /\ i + (z - a) <= l /\ i \in Nat /\ j \in Nat /\ j > l
      BY <2>2, <3>1, <3>3
    <3> HIDE DEF a, z
    <3>5. a + (j - i) > z
      BY <3>1, <3>4
    <3>6. a + (j - i) \notin 1 .. z
      BY <3>4, <3>5
    <3> USE DEF a, z
    <3>7. r[j].packet > r[i].packet
      BY <3>2, <3>3
    <3> QED
      BY <3>6, <3>7
  <2>3. CASE i > l /\ j > l
    <3>1. r[i].at + (j - i) = j - l /\ r[i].size = n /\ r[i].packet = m + 1
      BY <2>3, <1>1, <1>3, <1>8
    <3>2. r[j] = [packet |-> m + 1, at |-> j - l, size |-> n] /\ j - l <= n
      <4>1. j \in (l + 1) .. (l + n)
        BY <2>3, <1>1, <1>3
      <4>2. r[j] = [packet |-> m + 1, at |-> j - l, size |-> n]
        BY <4>1, <1>3
      <4>3. l \in Nat /\ n \in Nat
        BY <1>1, <1>3
      <4>4. j - l <= n
        BY <4>1, <4>3
      <4> QED
        BY <4>2, <4>4
    <3> QED
      BY <3>1, <3>2, <1>1, <1>3 DEF ByteAt
  <2>4. CASE i > l /\ j <= l
    BY <2>4, <1>1, <1>3, <1>8
  <2> QED
    BY <1>3, <2>1, <2>2, <2>3, <2>4
<1> QED
  BY <1>2, <1>4, <1>5, <1>6, <1>7 DEF Well, q, r

\* A packet of which nothing was sent is given up.
LEMMA GivenUp ==
  ASSUME NEW s \in Seq(Byte), NEW m \in Int, Well(s, m), Ends(s), NEW p \in Seq(Byte),
         Len(p) < Len(s), \A i \in 1 .. Len(p) : p[i] = s[i],
         s[Len(p) + 1].at = 1
  PROVE  Ends(p)
<1> DEFINE l == Len(p)
<1> SUFFICES ASSUME NEW i \in 1 .. l, ~(i + (s[i].size - s[i].at) <= l) PROVE FALSE
  BY DEF Ends
<1>1. l \in Nat /\ Len(s) \in Nat /\ i \in 1 .. Len(s) /\ l + 1 \in 1 .. Len(s)
  BY LenProperties
<1>2. s[i] \in Byte
  BY <1>1, ElementOfSeq
<1>3. s[i].at + (l + 1 - i) \in 1 .. s[i].size /\ s[i].at + (l + 1 - i) # 1
  <2>1. s[i].at \in Nat \ {0} /\ s[i].size \in Nat
    BY <1>2, Fields
  <2> DEFINE at == s[i].at
             size == s[i].size
  <2>2. at \in Nat \ {0} /\ size \in Nat /\ ~(i + (size - at) <= l)
    BY <2>1
  <2>3. l \in Nat /\ i \in 1 .. l
    BY <1>1
  <2> HIDE DEF l, at, size
  <2>4. at + (l + 1 - i) \in 1 .. size /\ at + (l + 1 - i) # 1
    BY <2>2, <2>3
  <2> QED
    BY <2>4 DEF at, size
<1>4. s[l + 1] = ByteAt(s[i], s[i].at + (l + 1 - i))
  BY <1>1, <1>3 DEF Well, Blocks
<1> QED
  BY <1>3, <1>4 DEF ByteAt

-----------------------------------------------------------------------------
\* Cutting and joining.
LEMMA Cuts ==
  ASSUME NEW s \in Seq(Byte), NEW k \in 0 .. Len(s)
  PROVE  /\ First(s, k) \in Seq(Byte) /\ Len(First(s, k)) = k
         /\ From(s, k) \in Seq(Byte) /\ Len(From(s, k)) = Len(s) - k
         /\ \A i \in 1 .. k : First(s, k)[i] = s[i]
         /\ \A i \in 1 .. Len(s) - k : From(s, k)[i] = s[i + k]
         /\ First(s, k) \o From(s, k) = s
<1>1. Len(s) \in Nat /\ \A i \in 1 .. Len(s) : s[i] \in Byte
  BY LenProperties, ElementOfSeq
<1>2. First(s, k) \in Seq(Byte) /\ Len(First(s, k)) = k
      /\ \A i \in 1 .. k : First(s, k)[i] = s[i]
  <2>1. \A i \in 1 .. k : s[i] \in Byte
    BY <1>1
  <2> QED
    BY <1>1, <2>1, SubSeqProperties DEF First
<1>3. /\ From(s, k) \in Seq(Byte) /\ Len(From(s, k)) = Len(s) - k
      /\ \A i \in 1 .. Len(s) - k : From(s, k)[i] = s[i + k]
  <2>1. \A i \in k + 1 .. Len(s) : s[i] \in Byte
    BY <1>1
  <2>2. /\ SubSeq(s, k + 1, Len(s)) \in Seq(Byte)
        /\ Len(SubSeq(s, k + 1, Len(s)))
             = IF k + 1 <= Len(s) THEN Len(s) - (k + 1) + 1 ELSE 0
        /\ \A i \in 1 .. Len(s) - (k + 1) + 1 :
             SubSeq(s, k + 1, Len(s))[i] = s[(k + 1) + i - 1]
    BY <1>1, <2>1, SubSeqProperties
  <2> QED
    BY <1>1, <2>2 DEF From
<1>4. First(s, k) \o From(s, k) = s
  <2>1. SubSeq(s, 1, k) \o SubSeq(s, k + 1, Len(s)) = SubSeq(s, 1, Len(s))
    <3>1. 1 \in 1 .. Len(s) + 1 /\ k \in 1 - 1 .. Len(s) /\ Len(s) \in k .. Len(s)
      BY <1>1
    <3> HIDE DEF First, From
    <3> QED
      BY <3>1, ConcatAdjacentSubSeq
  <2> QED
    BY <2>1, SubSeqFull DEF First, From
<1> QED
  BY <1>2, <1>3, <1>4

Below(g, s) == \A i \in 1 .. Len(g), j \in 1 .. Len(s) : g[i] < s[j].packet

LEMMA Associates ==
  ASSUME NEW s \in Seq(Byte), NEW t \in Seq(Byte), NEW u \in Seq(Byte)
  PROVE  (s \o t) \o u = s \o (t \o u)
BY ConcatAssociative

LEMMA Joins ==
  ASSUME NEW s \in Seq(Byte), NEW t \in Seq(Byte)
  PROVE  /\ s \o t \in Seq(Byte) /\ Len(s \o t) = Len(s) + Len(t)
         /\ Len(s) \in Nat /\ Len(t) \in Nat
         /\ \A i \in 1 .. Len(s) : (s \o t)[i] = s[i]
         /\ \A i \in 1 .. Len(t) : (s \o t)[Len(s) + i] = t[i]
<1>1. Len(s) \in Nat /\ Len(t) \in Nat
  BY LenProperties
<1>2. /\ s \o t \in Seq(Byte) /\ Len(s \o t) = Len(s) + Len(t)
      /\ \A i \in 1 .. Len(s) + Len(t) :
           (s \o t)[i] = IF i <= Len(s) THEN s[i] ELSE t[i - Len(s)]
  BY ConcatProperties
<1> QED
  BY <1>1, <1>2

\* Taking bytes from the end.
LEMMA Shorter ==
  ASSUME NEW s \in Seq(Byte), NEW t \in Seq(Byte), NEW m \in Int, NEW g,
         Well(s \o t, m), Below(g, s \o t)
  PROVE  Well(s, m) /\ Below(g, s)
<1>1. /\ s \o t \in Seq(Byte) /\ Len(s) \in Nat /\ Len(t) \in Nat
      /\ Len(s \o t) = Len(s) + Len(t)
      /\ \A i \in 1 .. Len(s) : (s \o t)[i] = s[i]
  BY Joins
<1>2. Well(s, m)
  <2> DEFINE r == s \o t
  <2>1. r \in Seq(Byte) /\ Well(r, m) /\ Len(s) <= Len(r)
        /\ \A i \in 1 .. Len(s) : s[i] = r[i]
    BY <1>1
  <2> HIDE DEF r
  <2> QED
    BY <2>1, Prefixes
<1>3. Below(g, s)
  BY <1>1 DEF Below
<1> QED
  BY <1>2, <1>3
-----------------------------------------------------------------------------
Line == (unread \o wire) \o sending.rest

\* Without a torn packet, what is on its way to the client's handlers is a row
\* of packets that begins with the first byte of one; while the connection is
\* there it ends with the last byte of one.
InStep ==
  /\ Well(Line, packets) /\ Below(got, Line)
  /\ open => Ends(Line)
  /\ reading # "parse" => Len(unread) < MAX_PACKET_BUF_SIZE
  /\ \A i \in 1 .. Len(got) : got[i] \in 1 .. packets
  /\ \A i, j \in 1 .. Len(got) : i < j => got[i] < got[j]

StreamInv ==
  /\ StreamTypeOK
  /\ BufferHasRoom
  /\ ~open => ~Sending
  /\ calls # {} => ~open
  /\ ~torn => InStep

LEMMA Types ==
  ASSUME StreamTypeOK
  PROVE  /\ unread \in Seq(Byte) /\ wire \in Seq(Byte) /\ sending.rest \in Seq(Byte)
         /\ unread \o wire \in Seq(Byte) /\ Line \in Seq(Byte)
         /\ Line = unread \o (wire \o sending.rest)
         /\ Len(unread) \in Nat /\ Len(wire) \in Nat /\ packets \in Nat
         /\ sending.tries \in Int
<1>1. unread \in Seq(Byte) /\ wire \in Seq(Byte) /\ sending.rest \in Seq(Byte)
  BY DEF StreamTypeOK
<1>2. unread \o wire \in Seq(Byte) /\ Line \in Seq(Byte)
  BY <1>1, Joins DEF Line
<1>3. Line = unread \o (wire \o sending.rest)
  <2> DEFINE r == sending.rest
  <2>1. unread \in Seq(Byte) /\ wire \in Seq(Byte) /\ r \in Seq(Byte)
    BY <1>1
  <2> HIDE DEF r
  <2>2. (unread \o wire) \o r = unread \o (wire \o r)
    BY <2>1, Associates
  <2> QED
    BY <2>2 DEF Line, r
<1>4. Len(unread) \in Nat /\ Len(wire) \in Nat
  BY <1>1, LenProperties
<1>5. packets \in Nat /\ sending.tries \in Int
  BY StreamAssumption DEF StreamTypeOK
<1> QED
  BY <1>1, <1>2, <1>3, <1>4, <1>5

\* What an empty row is.
LEMMA EmptyRow ==
  ASSUME NEW m \in Int, NEW g
  PROVE  Well(<< >>, m) /\ Ends(<< >>) /\ Below(g, << >>) /\ << >> \in Seq(Byte)
         /\ Len(<< >>) = 0
<1>1. Len(<< >>) = 0 /\ << >> \in Seq(Byte)
  BY EmptySeq
<1> QED
  BY <1>1 DEF Well, Valid, Blocks, Begins, Ends, Below

LEMMA InitStream == Init => StreamInv
<1> SUFFICES ASSUME Init PROVE StreamInv
  OBVIOUS
<1>1. StreamInit /\ ~open
  BY DEF Init
<1>2. StreamTypeOK
  <2>1. << >> \in Seq(Byte) /\ << >> \in Seq(Nat) /\ Len(<< >>) = 0
    BY EmptySeq
  <2>2. sending \in [rest : Seq(Byte), tries : -1 .. SEND_RETRY_LIMIT - 1]
    BY <1>1, <2>1, StreamAssumption DEF StreamInit, NotSending
  <2>3. packets \in 0 .. MaxPackets /\ Len(wire) <= SOCKET_ROOM
        /\ rPos_ + Len(unread) <= MAX_STREAM_BUF_SIZE
    BY <1>1, <2>1, StreamAssumption DEF StreamInit, MAX_STREAM_BUF_SIZE
  <2> QED
    BY <1>1, <2>1, <2>2, <2>3 DEF StreamInit, StreamTypeOK
<1>3. Line = << >>
  BY <1>1, EmptyRow, ConcatEmptySeq DEF StreamInit, NotSending, Line
<1>4. InStep
  BY <1>1, <1>3, EmptyRow, StreamAssumption DEF StreamInit, InStep
<1> QED
  BY <1>1, <1>2, <1>4 DEF Init, StreamInv, StreamInit, BufferHasRoom, Sending

\* The client connects; what circBuf_ holds of the connection before tears the
\* stream.
LEMMA StreamNewConnection ==
  StreamInv /\ NewConnection /\ calls' = {} => StreamInv'
<1> SUFFICES ASSUME StreamInv, NewConnection, calls' = {} PROVE StreamInv'
  OBVIOUS
<1> USE DEF NewConnection
<1>1. StreamTypeOK'
  <2>1. wire' \in Seq(Byte) /\ Len(wire') <= SOCKET_ROOM
    BY StreamAssumption, EmptySeq
  <2> QED
    BY <2>1 DEF StreamInv, StreamTypeOK, MAX_STREAM_BUF_SIZE
<1>2. ~torn' => InStep'
  <2> SUFFICES ASSUME ~torn' PROVE InStep'
    OBVIOUS
  <2>1. ~torn /\ unread' = << >> /\ sending' = NotSending /\ wire' = << >>
    BY DEF Sending
  <2>2. Line' = << >>
    BY <2>1, EmptyRow, ConcatEmptySeq DEF NotSending, Line
  <2>3. Well(Line', packets') /\ Ends(Line') /\ Below(got', Line')
    BY <2>2, EmptyRow DEF StreamInv, StreamTypeOK
  <2>4. Len(unread') < MAX_PACKET_BUF_SIZE
    BY <2>1, EmptyRow, StreamAssumption
  <2> QED
    BY <2>1, <2>3, <2>4 DEF StreamInv, InStep
<1> QED
  BY <1>1, <1>2 DEF StreamInv, BufferHasRoom

\* The connection ends, with a packet that is being sent or without.
LEMMA StreamEnds ==
  ASSUME StreamInv,
         ServiceDies \/ SessionEnds \/ \E call \in calls : OnDisconnected(call)
  PROVE  StreamInv'
<1>1. /\ UNCHANGED <<packets, rPos_, unread, reading, more, sent, got, torn, refused>>
      /\ ~open' /\ sending' = NotSending
      /\ wire' = wire \/ wire' = << >>
  <2>1. CASE ServiceDies
    BY <2>1 DEF ServiceDies
  <2>2. CASE SessionEnds
    BY <2>2 DEF SessionEnds, stream, Sending
  <2>3. ASSUME NEW call \in calls, OnDisconnected(call) PROVE <1>1!1 /\ <1>1!2 /\ <1>1!3
    BY <2>3 DEF OnDisconnected, StreamInv, Sending
  <2> QED
    BY <2>1, <2>2, <2>3
<1>2. StreamTypeOK
  BY DEF StreamInv
<1>3. /\ wire' \in Seq(Byte) /\ Len(wire') <= SOCKET_ROOM
      /\ sending' \in [rest : Seq(Byte), tries : -1 .. SEND_RETRY_LIMIT - 1]
  <2>1. << >> \in Seq(Byte) /\ Len(<< >>) = 0 /\ 0 <= SOCKET_ROOM
    BY EmptySeq, StreamAssumption
  <2>2. wire' \in Seq(Byte) /\ Len(wire') <= SOCKET_ROOM
    BY <1>1, <1>2, <2>1 DEF StreamTypeOK
  <2>3. sending' \in [rest : Seq(Byte), tries : -1 .. SEND_RETRY_LIMIT - 1]
    BY <1>1, <2>1, StreamAssumption DEF NotSending
  <2> QED
    BY <2>2, <2>3
<1>4. StreamTypeOK'
  BY <1>1, <1>2, <1>3 DEF StreamTypeOK, MAX_STREAM_BUF_SIZE
<1>5. ASSUME ~torn' PROVE InStep'
  <2>1. ~torn /\ InStep
    BY <1>1, <1>5 DEF StreamInv
  <2>2. Line' = unread \o wire'
    <3>1. Line' = (unread \o wire') \o << >>
      BY <1>1 DEF Line, NotSending
    <3>2. unread \o wire' \in Seq(Byte)
      BY <1>3, Types, <1>2, Joins
    <3> QED
      BY <3>1, <3>2, ConcatEmptySeq
  <2>3. Well(Line', packets) /\ Below(got, Line')
    <3>1. Well(unread \o wire, packets) /\ Below(got, unread \o wire)
      <4> DEFINE r == sending.rest
      <4>1. r \in Seq(Byte) /\ unread \o wire \in Seq(Byte) /\ packets \in Int
        BY <1>2, Types
      <4>2. Well((unread \o wire) \o r, packets) /\ Below(got, (unread \o wire) \o r)
        BY <2>1 DEF InStep, Line
      <4> HIDE DEF r
      <4> QED
        BY <4>1, <4>2, Shorter
    <3>2. Well(unread, packets) /\ Below(got, unread)
      BY <3>1, <1>2, Types, Shorter
    <3>3. unread \o << >> = unread
      BY <1>2, Types, ConcatEmptySeq
    <3> QED
      BY <1>1, <2>2, <3>1, <3>2, <3>3
  <2> QED
    BY <1>1, <2>1, <2>3 DEF InStep
<1> QED
  BY <1>1, <1>4, <1>5 DEF StreamInv, BufferHasRoom, Sending

\* SendMsg begins a packet.
LEMMA StreamSendMsg ==
  ASSUME StreamInv, open, NEW n \in Sizes, SendMsg(n), UNCHANGED <<open, calls>>
  PROVE  StreamInv'
<1> DEFINE q == Packet(packets + 1, n)
<1>1. /\ sending = NotSending /\ sending' = [rest |-> q, tries |-> 0]
      /\ packets < MaxPackets /\ packets' = packets + 1
      /\ UNCHANGED <<wire, rPos_, unread, reading, more, sent, got, torn, refused>>
  BY DEF SendMsg, Sending
<1>2. StreamTypeOK /\ packets \in Nat
  BY Types DEF StreamInv
<1>3. q \in Seq(Byte)
  <2>1. Well(<< >>, packets) /\ Ends(<< >>) /\ << >> \in Seq(Byte)
    BY <1>2, EmptyRow
  <2> QED
    BY <1>2, <2>1, NewPackets
<1> HIDE DEF q
<1>4. StreamTypeOK'
  <2>1. sending' \in [rest : Seq(Byte), tries : -1 .. SEND_RETRY_LIMIT - 1]
    BY <1>1, <1>3, StreamAssumption
  <2>2. packets' \in 0 .. MaxPackets
    BY <1>1, <1>2, StreamAssumption
  <2> QED
    BY <1>1, <1>2, <2>1, <2>2 DEF StreamTypeOK, MAX_STREAM_BUF_SIZE
<1>5. ASSUME ~torn' PROVE InStep'
  <2>1. InStep
    BY <1>1, <1>5 DEF StreamInv
  <2>2. Line = unread \o wire /\ Line \in Seq(Byte)
    <3>1. Line = (unread \o wire) \o << >>
      BY <1>1 DEF Line, NotSending
    <3> QED
      BY <3>1, <1>2, Types, ConcatEmptySeq
  <2>3. Line' = Line \o q
    BY <1>1, <2>2 DEF Line
  <2>4. Well(Line', packets + 1) /\ Ends(Line') /\ Len(q) = n
    BY <1>2, <2>1, <2>2, <2>3, NewPackets DEF InStep, q
  <2>5. Below(got, Line')
    <3> SUFFICES ASSUME NEW i \in 1 .. Len(got), NEW j \in 1 .. Len(Line')
                 PROVE  got[i] < Line'[j].packet
      BY <1>1 DEF Below
    <3>1. got[i] \in 1 .. packets
      BY <2>1 DEF InStep
    <3>2. /\ Len(Line') = Len(Line) + n /\ Len(Line) \in Nat /\ n \in Nat
          /\ \A k \in 1 .. Len(Line) : Line'[k] = Line[k]
          /\ \A k \in 1 .. n : Line'[Len(Line) + k] = q[k]
      BY <1>3, <2>2, <2>3, <2>4, Joins
    <3>3. CASE j <= Len(Line)
      <4>1. j \in 1 .. Len(Line) /\ Line'[j] = Line[j]
        BY <3>2, <3>3
      <4> QED
        BY <4>1, <2>1 DEF InStep, Below
    <3>4. CASE j > Len(Line)
      <4>1. j - Len(Line) \in 1 .. n /\ j = Len(Line) + (j - Len(Line))
        BY <3>2, <3>4
      <4>2. Line'[j] = q[j - Len(Line)]
        BY <3>2, <4>1
      <4>3. q[j - Len(Line)].packet = packets + 1
        BY <4>1 DEF q, Packet
      <4> QED
        BY <3>1, <4>2, <4>3, <1>2
    <3> QED
      BY <3>2, <3>3, <3>4
  <2>6. \A i \in 1 .. Len(got) : got[i] \in 1 .. packets'
    BY <1>1, <1>2, <2>1 DEF InStep
  <2> QED
    BY <1>1, <2>1, <2>4, <2>5, <2>6 DEF InStep
<1> QED
  BY <1>1, <1>4, <1>5 DEF StreamInv, BufferHasRoom

\* One call of send.
LEMMA StreamSendSome ==
  ASSUME StreamInv, open, SendSome, UNCHANGED <<open, calls>>
  PROVE  StreamInv'
<1>1. PICK k \in 0 .. Least(Len(sending.rest), SOCKET_ROOM - Len(wire)) :
        LET rest == From(sending.rest, k)
            tries == sending.tries + 1
            returns == rest = << >> \/ tries = SEND_RETRY_LIMIT IN
          /\ wire' = wire \o First(sending.rest, k)
          /\ sending' = IF returns THEN NotSending ELSE [rest |-> rest, tries |-> tries]
          /\ sent' = IF rest = << >> /\ tries < SEND_RETRY_LIMIT
                     THEN sent \union {packets} ELSE sent
          /\ torn' = (torn \/ (returns /\ rest # << >> /\ rest[1].at > 1))
  BY DEF SendSome
<1> DEFINE r == sending.rest
           f == First(r, k)
           g == From(r, k)
           returns == g = << >> \/ sending.tries + 1 = SEND_RETRY_LIMIT
<1>2. /\ StreamTypeOK /\ r \in Seq(Byte) /\ unread \in Seq(Byte) /\ wire \in Seq(Byte)
      /\ Len(wire) \in Nat /\ Len(r) \in Nat /\ packets \in Nat
      /\ unread \o wire \in Seq(Byte)
  BY Types, LenProperties DEF StreamInv
<1>3. k \in 0 .. Len(r) /\ k \in Nat /\ Len(wire) + k <= SOCKET_ROOM
  <2> HIDE DEF r
  <2>1. SOCKET_ROOM \in Nat /\ k \in 0 .. Least(Len(r), SOCKET_ROOM - Len(wire))
    BY StreamAssumption DEF r
  <2> QED
    BY <1>2, <2>1 DEF Least
<1>4. /\ f \in Seq(Byte) /\ Len(f) = k /\ g \in Seq(Byte) /\ f \o g = r
  <2> HIDE DEF r
  <2> QED
    BY <1>2, <1>3, Cuts
<1>5. /\ wire' = wire \o f
      /\ sending' = IF returns THEN NotSending
                    ELSE [rest |-> g, tries |-> sending.tries + 1]
      /\ sent' \in {sent, sent \union {packets}}
      /\ torn' = (torn \/ (returns /\ g # << >> /\ g[1].at > 1))
      /\ UNCHANGED <<packets, rPos_, unread, reading, more, got, refused>>
  BY <1>1 DEF SendSome
<1>6. /\ wire' \in Seq(Byte) /\ Len(wire') = Len(wire) + k
  <2> HIDE DEF f
  <2> QED
    BY <1>2, <1>4, <1>5, Joins
<1>7. StreamTypeOK'
  <2>1. sending' \in [rest : Seq(Byte), tries : -1 .. SEND_RETRY_LIMIT - 1]
    <3>1. CASE returns
      BY <1>5, <3>1, EmptySeq, StreamAssumption DEF NotSending
    <3>2. CASE ~returns
      <4>1. sending.tries \in -1 .. SEND_RETRY_LIMIT - 1
            /\ sending.tries + 1 # SEND_RETRY_LIMIT
        BY <1>2, <3>2 DEF StreamTypeOK
      <4>2. sending.tries + 1 \in -1 .. SEND_RETRY_LIMIT - 1
        BY <4>1, StreamAssumption
      <4> HIDE DEF g
      <4> QED
        BY <1>4, <1>5, <3>2, <4>2
    <3> QED
      BY <3>1, <3>2
  <2>2. sent' \subseteq Nat /\ torn' \in BOOLEAN
    <3>1. sent \subseteq Nat /\ torn \in BOOLEAN
      BY <1>2 DEF StreamTypeOK
    <3> HIDE DEF returns, g
    <3> QED
      BY <1>2, <1>5, <3>1
  <2> HIDE DEF returns, f, g, r
  <2> QED
    BY <1>2, <1>3, <1>5, <1>6, <2>1, <2>2 DEF StreamTypeOK, MAX_STREAM_BUF_SIZE
<1>8. ASSUME ~torn' PROVE InStep'
  <2> HIDE DEF f, g, returns
  <2>1. ~torn /\ InStep /\ ~(returns /\ g # << >> /\ g[1].at > 1)
    BY <1>5, <1>8 DEF StreamInv
  <2> DEFINE p == unread \o wire'
  <2>2. p \in Seq(Byte) /\ Line = p \o g
    <3>1. p = (unread \o wire) \o f
      <4>2. unread \in Seq(Byte) /\ wire \in Seq(Byte) /\ f \in Seq(Byte)
        BY <1>2, <1>4
      <4>1. (unread \o wire) \o f = unread \o (wire \o f)
        BY <4>2, Associates
      <4> QED
        BY <4>1, <1>5
    <3>2. Line = (unread \o wire) \o (f \o g)
      BY <1>4 DEF Line
    <3>3. ((unread \o wire) \o f) \o g = (unread \o wire) \o (f \o g)
      <4> DEFINE u == unread \o wire
      <4>1. u \in Seq(Byte) /\ f \in Seq(Byte) /\ g \in Seq(Byte)
        BY <1>2, <1>4
      <4> HIDE DEF u
      <4>2. (u \o f) \o g = u \o (f \o g)
        BY <4>1, Associates
      <4> QED
        BY <4>2 DEF u
    <3>4. p \in Seq(Byte)
      BY <1>2, <1>6, Joins
    <3> QED
      BY <3>1, <3>2, <3>3, <3>4
  <2>3. CASE ~returns
    <3>1. Line' = Line
      BY <1>5, <2>2, <2>3 DEF Line
    <3> QED
      BY <1>5, <2>1, <3>1 DEF InStep
  <2>4. CASE returns
    <3>1. Line' = p
      <4>1. Line' = p \o << >>
        BY <1>5, <2>4 DEF Line, NotSending
      <4> QED
        BY <2>2, <4>1, ConcatEmptySeq
    <3>2. Well(p, packets) /\ Below(got, p)
      <4>1. Well(p \o g, packets) /\ Below(got, p \o g)
        BY <2>1, <2>2 DEF InStep
      <4>2. packets \in Int /\ p \in Seq(Byte) /\ g \in Seq(Byte)
        BY <1>2, <1>4, <2>2
      <4> HIDE DEF p
      <4> QED
        BY <4>1, <4>2, Shorter
    <3>3. Ends(p)
      <4>1. CASE g = << >>
        <5>1. Line = p
          BY <2>2, <4>1, ConcatEmptySeq
        <5> QED
          BY <2>1, <5>1 DEF InStep
      <4>2. CASE g # << >>
        <5>1. Len(g) \in Nat \ {0} /\ g[1] \in Byte
          BY <1>4, <4>2, EmptySeq, ElementOfSeq
        <5>2. g[1].at = 1
          <6>1. g[1].at \in Nat \ {0} /\ ~(g[1].at > 1)
            BY <5>1, <4>2, <2>1, <2>4, Fields
          <6> QED
            BY <6>1
        <5>3. /\ Line \in Seq(Byte) /\ Len(Line) = Len(p) + Len(g) /\ Len(p) \in Nat
              /\ \A i \in 1 .. Len(p) : Line[i] = p[i]
              /\ Line[Len(p) + 1] = g[1]
          <6> HIDE DEF p
          <6> QED
            BY <1>4, <2>2, <5>1, Joins
        <5>4. Len(p) < Len(Line) /\ Line[Len(p) + 1].at = 1
          BY <5>1, <5>2, <5>3
        <5>5. Well(Line, packets) /\ Ends(Line)
          BY <2>1 DEF InStep
        <5>6. packets \in Int /\ p \in Seq(Byte)
          BY <1>2, <2>2
        <5>7. \A i \in 1 .. Len(p) : p[i] = Line[i]
          BY <5>3
        <5> HIDE DEF p
        <5> QED
          BY <5>3, <5>4, <5>5, <5>6, <5>7, GivenUp
      <4> QED
        BY <4>1, <4>2
    <3> QED
      BY <1>5, <2>1, <3>1, <3>2, <3>3 DEF InStep
  <2> QED
    BY <2>3, <2>4
<1>9. BufferHasRoom'
  BY <1>5 DEF StreamInv, BufferHasRoom
<1> QED
  BY <1>7, <1>8, <1>9 DEF StreamInv

\* Up to MAX_PACKET_BUF_SIZE bytes from the socket to circBuf_.
LEMMA StreamRecv ==
  ASSUME StreamInv, Recv, UNCHANGED <<open, calls>>
  PROVE  StreamInv'
<1> DEFINE n == Least(Len(wire), MAX_PACKET_BUF_SIZE)
           f == First(wire, n)
           g == From(wire, n)
           r == sending.rest
<1>1. /\ StreamTypeOK /\ r \in Seq(Byte) /\ unread \in Seq(Byte) /\ wire \in Seq(Byte)
      /\ Len(wire) \in Nat /\ Len(unread) \in Nat
  BY Types DEF StreamInv
<1>2. /\ n \in 0 .. Len(wire) /\ n \in Nat /\ n <= MAX_PACKET_BUF_SIZE
  BY <1>1, StreamAssumption DEF Least
<1>3. /\ wire' = g /\ WriteTo(f) /\ more' = (n = MAX_PACKET_BUF_SIZE)
      /\ reading = "recv" /\ reading' = "parse"
      /\ UNCHANGED <<packets, sending, sent, got, torn>>
  BY DEF Recv
<1> HIDE DEF n
<1>4. /\ f \in Seq(Byte) /\ Len(f) = n /\ g \in Seq(Byte) /\ Len(g) = Len(wire) - n
      /\ f \o g = wire
  BY <1>1, <1>2, Cuts
<1> HIDE DEF f, g, r
<1>5. unread \o f \in Seq(Byte) /\ Len(unread \o f) = Len(unread) + n
  BY <1>1, <1>4, Joins
<1>6. \/ /\ Len(unread) + n <= MAX_STREAM_BUF_SIZE
         /\ unread' = unread \o f /\ refused' = refused
      \/ /\ Len(unread) + n > MAX_STREAM_BUF_SIZE
         /\ unread' = unread /\ refused' = TRUE
  BY <1>1, <1>2, <1>3, <1>4, StreamAssumption DEF WriteTo, MAX_STREAM_BUF_SIZE
<1>7. StreamTypeOK'
  <2>1. unread' \in Seq(Byte) /\ refused' \in BOOLEAN
    BY <1>1, <1>5, <1>6 DEF StreamTypeOK
  <2>2. rPos_ \in Nat /\ rPos_ + Len(unread) <= MAX_STREAM_BUF_SIZE
        /\ MAX_STREAM_BUF_SIZE \in Nat
    BY <1>1, StreamAssumption DEF StreamTypeOK, MAX_STREAM_BUF_SIZE
  <2>3. rPos_' = IF rPos_ + Len(unread) + n <= MAX_STREAM_BUF_SIZE THEN rPos_ ELSE 0
    BY <1>3, <1>4 DEF WriteTo
  <2>4. rPos_' \in Nat /\ rPos_' + Len(unread') <= MAX_STREAM_BUF_SIZE
    BY <1>1, <1>2, <1>5, <1>6, <2>2, <2>3
  <2>5. wire' \in Seq(Byte) /\ Len(wire') <= SOCKET_ROOM
    BY <1>1, <1>2, <1>3, <1>4, StreamAssumption DEF StreamTypeOK
  <2> QED
    BY <1>1, <1>3, <2>1, <2>4, <2>5 DEF StreamTypeOK, MAX_STREAM_BUF_SIZE
<1>8. ASSUME ~torn' PROVE InStep' /\ refused' = refused
  <2>1. ~torn /\ InStep
    BY <1>3, <1>8 DEF StreamInv
  <2>2. Len(unread) < MAX_PACKET_BUF_SIZE
    BY <1>3, <2>1 DEF InStep
  <2>3. unread' = unread \o f /\ refused' = refused
    BY <1>1, <1>2, <1>6, <2>2, StreamAssumption DEF MAX_STREAM_BUF_SIZE
  <2>4. unread' \o wire' = unread \o wire
    <3>1. unread \in Seq(Byte) /\ f \in Seq(Byte) /\ g \in Seq(Byte)
      BY <1>1, <1>4
    <3>2. (unread \o f) \o g = unread \o (f \o g)
      BY <3>1, Associates
    <3> QED
      BY <1>3, <1>4, <2>3, <3>2
  <2>5. Line' = Line
    BY <1>3, <2>4 DEF Line
  <2> QED
    BY <1>3, <2>1, <2>3, <2>5 DEF InStep
<1>9. BufferHasRoom'
  BY <1>3, <1>8, <1>1 DEF StreamInv, BufferHasRoom, StreamTypeOK
<1> QED
  BY <1>3, <1>7, <1>8, <1>9 DEF StreamInv, Sending

\* Where a packet begins its header says so.
LEMMA HeaderIsRight ==
  ASSUME StreamInv, ~torn, HasHeader
  PROVE  /\ unread # << >> /\ unread[1] \in Byte
         /\ unread[1].size \in Sizes /\ IsPacketStart
         /\ \A j \in 1 .. Len(unread) : unread[j] = Line[j]
         /\ Line # << >> /\ Line[1] = unread[1]
<1>1. /\ StreamTypeOK /\ unread \in Seq(Byte) /\ Line \in Seq(Byte)
      /\ wire \o sending.rest \in Seq(Byte)
      /\ Line = unread \o (wire \o sending.rest) /\ packets \in Int
      /\ Len(unread) \in Nat
  <2>1. wire \in Seq(Byte) /\ sending.rest \in Seq(Byte)
    BY Types DEF StreamInv
  <2>2. wire \o sending.rest \in Seq(Byte)
    BY <2>1, Joins
  <2> QED
    BY <2>2, Types DEF StreamInv
<1>2. Len(unread) >= HEAD /\ HEAD \in Nat \ {0} /\ Len(unread) >= 1
  BY <1>1, StreamAssumption DEF HasHeader
<1> DEFINE x == wire \o sending.rest
<1>3. /\ \A j \in 1 .. Len(unread) : unread[j] = Line[j]
      /\ Len(Line) = Len(unread) + Len(x) /\ Len(x) \in Nat
  <2>1. x \in Seq(Byte) /\ Line = unread \o x
    BY <1>1
  <2> HIDE DEF x
  <2> QED
    BY <1>1, <2>1, Joins
<1>4. unread # << >> /\ Line # << >> /\ Len(Line) >= HEAD
  <2>1. Len(Line) >= Len(unread)
    <3> HIDE DEF x
    <3> QED
      BY <1>1, <1>3
  <2> QED
    BY <1>1, <1>2, <2>1, EmptySeq
<1>5. /\ Line[1] \in Byte /\ Line[1].at = 1 /\ Line[1].size \in Sizes
      /\ \A j \in 1 .. Len(Line) : j <= Line[1].size => Line[j] = ByteAt(Line[1], j)
  <2>1. Well(Line, packets)
    BY DEF StreamInv, InStep
  <2> QED
    BY <1>1, <1>4, <2>1, Heads
<1>6. unread[1] = Line[1]
  BY <1>1, <1>2, <1>3
<1>7. IsPacketStart
  <2> SUFFICES ASSUME NEW i \in 1 .. HEAD
               PROVE  unread[i] = [unread[1] EXCEPT !.at = i]
    BY DEF IsPacketStart
  <2>1. i \in 1 .. Len(unread) /\ i \in 1 .. Len(Line) /\ unread[i] = Line[i]
    BY <1>1, <1>2, <1>3, <1>4, LenProperties
  <2>2. i <= Line[1].size
    BY <1>2, <1>5, StreamAssumption DEF Sizes
  <2>3. unread[i] = ByteAt(unread[1], i)
    BY <1>5, <1>6, <2>1, <2>2
  <2>4. unread[1] = [packet |-> unread[1].packet, at |-> unread[1].at,
                     size |-> unread[1].size]
    BY <1>5, <1>6, Fields
  <2> QED
    BY <2>3, <2>4 DEF ByteAt
<1> QED
  BY <1>3, <1>4, <1>5, <1>6, <1>7

\* OnReadPackets finds no whole packet, or drops everything.
LEMMA StreamParseWaits ==
  ASSUME StreamInv, RecvNothing \/ ParseWaits, UNCHANGED <<open, calls>>
  PROVE  StreamInv'
<1>1. /\ UNCHANGED <<packets, sending, wire, rPos_, unread, sent, got, torn, refused>>
      /\ reading' \in {"idle", "recv"} /\ more' \in BOOLEAN
  BY DEF RecvNothing, ParseWaits, Back, StreamInv, StreamTypeOK
<1>2. StreamTypeOK'
  BY <1>1 DEF StreamInv, StreamTypeOK, MAX_STREAM_BUF_SIZE
<1>3. ASSUME ~torn' PROVE InStep'
  <2>1. ~torn /\ InStep /\ Line' = Line
    BY <1>1, <1>3 DEF StreamInv, Line
  <2>2. Len(unread) < MAX_PACKET_BUF_SIZE
    <3>1. CASE RecvNothing
      BY <2>1, <3>1 DEF RecvNothing, InStep
    <3>2. CASE ParseWaits /\ ~HasHeader
      BY <3>2, StreamAssumption, Types DEF HasHeader, StreamInv
    <3>3. CASE ParseWaits /\ HasHeader
      <4>1. PICK n \in 0 .. MAX_PACKET_BUF_SIZE : SaysSize(n) /\ ~IsComplete(n)
        BY <3>3 DEF ParseWaits
      <4>2. n = unread[1].size - HEAD /\ unread[1].size \in Sizes
        BY <2>1, <3>3, <4>1, HeaderIsRight DEF SaysSize
      <4>3. n > Len(unread) - HEAD /\ Len(unread) \in Nat
        BY <4>1, Types, StreamAssumption DEF IsComplete, StreamInv
      <4> QED
        BY <4>2, <4>3, StreamAssumption DEF Sizes
    <3> QED
      BY <3>1, <3>2, <3>3
  <2> QED
    BY <1>1, <2>1, <2>2 DEF InStep
<1> QED
  BY <1>1, <1>2, <1>3 DEF StreamInv, BufferHasRoom, Sending

LEMMA StreamParseResets ==
  ASSUME StreamInv, ParseResets, UNCHANGED <<open, calls>>
  PROVE  StreamInv'
<1>1. torn
  <2> SUFFICES ASSUME ~torn PROVE FALSE
    OBVIOUS
  <2>1. -1 = unread[1].size - HEAD /\ unread[1].size \in Sizes
    BY HeaderIsRight DEF ParseResets, SaysSize
  <2> QED
    BY <2>1, StreamAssumption DEF Sizes
<1>2. /\ UNCHANGED <<packets, sending, wire, more, sent, got, torn, refused>>
      /\ rPos_' = 0 /\ unread' = << >> /\ reading' \in {"idle", "recv"}
  BY DEF ParseResets, Back
<1>3. StreamTypeOK'
  <2>1. unread' \in Seq(Byte) /\ rPos_' + Len(unread') <= MAX_STREAM_BUF_SIZE
    BY <1>2, EmptySeq, StreamAssumption DEF MAX_STREAM_BUF_SIZE
  <2> QED
    BY <1>2, <2>1 DEF StreamInv, StreamTypeOK, MAX_STREAM_BUF_SIZE
<1> QED
  BY <1>1, <1>2, <1>3 DEF StreamInv, BufferHasRoom, Sending

\* A packet is cut out of circBuf_.
LEMMA StreamParseDelivers ==
  ASSUME StreamInv, ParseDelivers, UNCHANGED <<open, calls>>
  PROVE  StreamInv'
<1>1. PICK n \in 0 .. MAX_PACKET_BUF_SIZE :
        /\ SaysSize(n) /\ IsComplete(n)
        /\ got' = Append(got, PacketOf(HEAD + n))
        /\ unread' = From(unread, PacketLength(n))
        /\ rPos_' = IF unread' = << >> THEN 0 ELSE rPos_ + PacketLength(n)
        /\ reading' = IF unread' = << >> THEN Back ELSE "parse"
  BY DEF ParseDelivers
<1>2. /\ HasHeader /\ reading = "parse"
      /\ UNCHANGED <<packets, sending, wire, more, sent, torn, refused>>
  BY DEF ParseDelivers
<1>3. /\ StreamTypeOK /\ unread \in Seq(Byte) /\ wire \in Seq(Byte)
      /\ Len(unread) \in Nat /\ packets \in Nat /\ got \in Seq(Nat)
      /\ rPos_ \in Nat /\ rPos_ + Len(unread) <= MAX_STREAM_BUF_SIZE
      /\ sending.rest \in Seq(Byte)
  BY Types DEF StreamInv, StreamTypeOK
<1> DEFINE c == HEAD + n
           d == PacketOf(c)
<1>4. c \in 0 .. Len(unread) /\ c \in Nat \ {0} /\ Len(unread) \in Nat \ {0}
  BY <1>1, <1>3, StreamAssumption DEF IsComplete
<1>5. unread[1] \in Byte /\ d \in Nat
  <2>1. unread[1] \in Byte
    BY <1>3, <1>4, ElementOfSeq
  <2> QED
    BY <2>1, Fields DEF PacketOf
<1> HIDE DEF c, d
<1>6. /\ got' = Append(got, d) /\ unread' = From(unread, c)
      /\ rPos_' = IF unread' = << >> THEN 0 ELSE rPos_ + c
  BY <1>1 DEF c, d, PacketLength
<1>7. /\ unread' \in Seq(Byte) /\ Len(unread') = Len(unread) - c
      /\ \A i \in 1 .. Len(unread) - c : unread'[i] = unread[i + c]
  BY <1>3, <1>4, <1>6, Cuts
<1>8. StreamTypeOK'
  <2>1. got' \in Seq(Nat)
    BY <1>3, <1>5, <1>6
  <2>2. rPos_' \in Nat /\ rPos_' + Len(unread') <= MAX_STREAM_BUF_SIZE
    <3>1. CASE unread' = << >>
      BY <3>1, <1>6, EmptySeq, StreamAssumption DEF MAX_STREAM_BUF_SIZE
    <3>2. CASE unread' # << >>
      BY <3>2, <1>3, <1>4, <1>6, <1>7, StreamAssumption DEF MAX_STREAM_BUF_SIZE
    <3> QED
      BY <3>1, <3>2
  <2>3. reading' \in {"idle", "recv", "parse"}
    BY <1>1 DEF Back
  <2> QED
    BY <1>2, <1>3, <1>7, <2>1, <2>2, <2>3 DEF StreamTypeOK, MAX_STREAM_BUF_SIZE
<1>9. ASSUME ~torn' PROVE InStep'
  <2>1. ~torn /\ InStep
    BY <1>2, <1>9 DEF StreamInv
  <2>2. /\ unread[1].size \in Sizes /\ Line # << >> /\ Line[1] = unread[1]
        /\ \A j \in 1 .. Len(unread) : unread[j] = Line[j]
        /\ IsPacketStart
    BY <1>2, <2>1, HeaderIsRight
  <2>3. c = unread[1].size
    <3>1. n = unread[1].size - HEAD
      BY <1>1, <2>2 DEF SaysSize
    <3>2. unread[1].size \in Int /\ HEAD \in Int
      BY <2>2, StreamAssumption DEF Sizes
    <3> QED
      BY <3>1, <3>2 DEF c
  <2> DEFINE x == wire \o sending.rest
  <2>4. x \in Seq(Byte) /\ Line = unread \o x /\ Line \in Seq(Byte)
        /\ Line' = unread' \o x
    <3>1. x \in Seq(Byte)
      BY <1>3, Joins
    <3>2. Line = unread \o x /\ Line \in Seq(Byte)
      BY <1>3, Types
    <3>3. Line' = unread' \o x
      <4> DEFINE r == sending.rest
      <4>1. unread' \in Seq(Byte) /\ wire \in Seq(Byte) /\ r \in Seq(Byte)
        BY <1>3, <1>7
      <4> HIDE DEF r
      <4>2. (unread' \o wire) \o r = unread' \o (wire \o r)
        BY <4>1, Associates
      <4> QED
        BY <1>2, <4>2 DEF Line, r
    <3> QED
      BY <3>1, <3>2, <3>3
  <2> HIDE DEF x
  <2>5. /\ Line' \in Seq(Byte) /\ Len(Line) = Len(unread) + Len(x) /\ Len(x) \in Nat
        /\ Len(Line') = Len(Line) - c
        /\ \A i \in 1 .. Len(Line') : Line'[i] = Line[i + c]
    <3>1. /\ Len(Line) = Len(unread) + Len(x) /\ Len(x) \in Nat
          /\ \A i \in 1 .. Len(unread) : Line[i] = unread[i]
          /\ \A i \in 1 .. Len(x) : Line[Len(unread) + i] = x[i]
      <4>1. unread \in Seq(Byte) /\ x \in Seq(Byte) /\ Line = unread \o x
        BY <1>3, <2>4
      <4> QED
        BY <4>1, Joins
    <3>2. /\ Line' \in Seq(Byte) /\ Len(Line') = Len(unread') + Len(x)
          /\ \A i \in 1 .. Len(unread') : Line'[i] = unread'[i]
          /\ \A i \in 1 .. Len(x) : Line'[Len(unread') + i] = x[i]
      BY <1>7, <2>4, Joins
    <3>3. ASSUME NEW i \in 1 .. Len(Line') PROVE Line'[i] = Line[i + c]
      <4>1. CASE i <= Len(unread')
        <5>1. i \in 1 .. Len(unread') /\ i \in 1 .. Len(unread) - c
              /\ i + c \in 1 .. Len(unread)
          BY <1>3, <1>4, <1>7, <4>1
        <5> QED
          BY <1>7, <3>1, <3>2, <5>1
      <4>2. CASE i > Len(unread')
        <5>1. /\ i - Len(unread') \in 1 .. Len(x)
              /\ i = Len(unread') + (i - Len(unread'))
              /\ i + c = Len(unread) + (i - Len(unread'))
          BY <1>3, <1>4, <1>7, <3>1, <3>2, <4>2
        <5> DEFINE e == i - Len(unread')
        <5>2. /\ e \in 1 .. Len(x) /\ i = Len(unread') + e
              /\ i + c = Len(unread) + e
          BY <5>1
        <5> HIDE DEF e
        <5>3. Line'[i] = x[e]
          BY <3>2, <5>2
        <5>4. Line[i + c] = x[e]
          BY <3>1, <5>2
        <5> QED
          BY <5>3, <5>4
      <4> QED
        BY <1>4, <1>7, <3>2, <3>1, <4>1, <4>2
    <3> QED
      BY <1>3, <1>4, <1>7, <3>1, <3>2, <3>3
  <2>6. /\ Well(Line', packets)
        /\ Ends(Line) => Ends(Line')
        /\ \A i \in 1 .. Len(Line') : Line'[i].packet > unread[1].packet
    <3>1. Line[1].size = c /\ c <= Len(Line) /\ packets \in Int
      BY <1>3, <1>4, <2>2, <2>3, <2>5
    <3>2. Well(Line, packets)
      BY <2>1 DEF InStep
    <3> DEFINE q == Line
               p == Line'
    <3>3. q \in Seq(Byte) /\ q # << >> /\ p \in Seq(Byte)
      BY <2>2, <2>4, <2>5
    <3>4. /\ Len(p) = Len(q) - q[1].size
          /\ \A i \in 1 .. Len(p) : p[i] = q[i + q[1].size]
      BY <2>5, <3>1
    <3>5. q[1].size <= Len(q) /\ Well(q, packets) /\ packets \in Int
      BY <3>1, <3>2
    <3> HIDE DEF p, q
    <3>6. /\ Well(p, packets)
          /\ \A i \in 1 .. Len(p) : p[i].packet > q[1].packet
          /\ Ends(q) => Ends(p)
      BY <3>3, <3>4, <3>5, Suffixes, Zenon
    <3> QED
      BY <2>2, <3>6 DEF p, q
  <2>7. d = unread[1].packet
    <3>1. First(unread, c) \in Seq(Byte) /\ Len(First(unread, c)) = c
          /\ \A i \in 1 .. c : First(unread, c)[i] = unread[i]
      BY <1>3, <1>4, Cuts
    <3>2. \A i \in 1 .. c : unread[i] = ByteAt(unread[1], i)
      <4>1. \A j \in 1 .. Len(Line) : j <= Line[1].size => Line[j] = ByteAt(Line[1], j)
        <5>1. Well(Line, packets) /\ packets \in Int
          BY <1>3, <2>1 DEF InStep
        <5> QED
          BY <2>2, <2>4, <5>1, Heads
      <4>2. \A i \in 1 .. c : i \in 1 .. Len(unread) /\ i \in 1 .. Len(Line) /\ i <= c
        BY <1>3, <1>4, <2>5
      <4> QED
        BY <2>2, <2>3, <4>1, <4>2
    <3>3. Packet(unread[1].packet, c) \in Seq(Byte)
          /\ Len(Packet(unread[1].packet, c)) = c
          /\ \A i \in 1 .. c : Packet(unread[1].packet, c)[i] = ByteAt(unread[1], i)
      <4>1. unread[1].packet \in Nat \ {0} /\ unread[1].size = c
        BY <1>5, <2>3, Fields
      <4> QED
        BY <1>4, <4>1 DEF Packet, Byte, ByteAt
    <3>4. First(unread, c) = Packet(unread[1].packet, c)
      <4> DEFINE u == First(unread, c)
                 v == Packet(unread[1].packet, c)
      <4>1. u \in Seq(Byte) /\ v \in Seq(Byte) /\ Len(u) = Len(v)
        BY <3>1, <3>3
      <4>2. \A i \in 1 .. Len(u) : u[i] = v[i]
        BY <3>1, <3>2, <3>3
      <4> HIDE DEF u, v
      <4>3. u = v
        BY <4>1, <4>2, SeqEqual
      <4> QED
        BY <4>3 DEF u, v
    <3> QED
      BY <3>4 DEF d, PacketOf
  <2>8. d \in 1 .. packets /\ \A i \in 1 .. Len(got) : got[i] < d
    <3>1. 1 \in 1 .. Len(Line) /\ Line[1].packet <= packets
      BY <1>3, <1>4, <2>1, <2>5 DEF InStep, Well, Valid
    <3>2. \A i \in 1 .. Len(got) : got[i] < Line[1].packet
      BY <3>1, <2>1 DEF InStep, Below
    <3>3. unread[1].packet \in Nat \ {0}
      BY <1>5, Fields
    <3> QED
      BY <1>3, <2>2, <2>7, <3>1, <3>2, <3>3
  <2>9. /\ Len(got') = Len(got) + 1 /\ Len(got) \in Nat
        /\ got'[Len(got) + 1] = d
        /\ \A i \in 1 .. Len(got) : got'[i] = got[i] /\ got[i] \in Nat
    BY <1>3, <1>6, ElementOfSeq, AppendProperties, LenProperties
  <2>10. Below(got', Line')
    <3> SUFFICES ASSUME NEW i \in 1 .. Len(got'), NEW j \in 1 .. Len(Line')
                 PROVE  got'[i] < Line'[j].packet
      BY DEF Below
    <3>1. d < Line'[j].packet /\ Line'[j].packet \in Nat
      <4>1. Line'[j] \in Byte
        BY <2>5, ElementOfSeq
      <4>2. Line'[j].packet \in Nat /\ d \in Nat
        BY <1>5, <4>1, Fields
      <4> QED
        BY <2>6, <2>7, <4>2
    <3>2. CASE i <= Len(got)
      BY <1>5, <2>8, <2>9, <3>1, <3>2
    <3>3. CASE i > Len(got)
      BY <2>9, <3>1, <3>3
    <3> QED
      BY <2>9, <3>2, <3>3
  <2>11. /\ \A i \in 1 .. Len(got') : got'[i] \in 1 .. packets
         /\ \A i, j \in 1 .. Len(got') : i < j => got'[i] < got'[j]
    <3>1. /\ \A i \in 1 .. Len(got) : got[i] \in 1 .. packets
          /\ \A i, j \in 1 .. Len(got) : i < j => got[i] < got[j]
      BY <2>1 DEF InStep
    <3>2. \A i \in 1 .. Len(got') : i \in 1 .. Len(got) \/ i = Len(got) + 1
      BY <2>9
    <3> QED
      BY <2>8, <2>9, <3>1, <3>2
  <2>12. reading' # "parse" => Len(unread') < MAX_PACKET_BUF_SIZE
    BY <1>1, EmptySeq, StreamAssumption
  <2>13. Well(Line', packets') /\ (open' => Ends(Line'))
    <3>1. packets' = packets /\ open' = open /\ (open => Ends(Line))
      BY <1>2, <2>1 DEF InStep
    <3> QED
      BY <2>6, <3>1
  <2> QED
    BY <1>2, <2>10, <2>11, <2>12, <2>13 DEF InStep
<1> QED
  BY <1>2, <1>8, <1>9 DEF StreamInv, BufferHasRoom, Sending

LEMMA StreamStep == StreamInv /\ Armed /\ [Next]_vars => StreamInv'
<1> SUFFICES ASSUME StreamInv, Armed, [Next]_vars PROVE StreamInv'
  OBVIOUS
<1>1. CASE UNCHANGED <<stream, open, calls>>
  <2>1. StreamTypeOK' /\ Line' = Line
    BY <1>1 DEF StreamInv, StreamTypeOK, MAX_STREAM_BUF_SIZE, stream, Line
  <2> QED
    BY <1>1, <2>1 DEF StreamInv, BufferHasRoom, InStep, stream, Sending
<1>2. CASE ServiceSends
  <2>1. open /\ UNCHANGED <<open, calls>>
    BY <1>2 DEF ServiceSends, service, client
  <2>2. SendSome \/ \E n \in Sizes : SendMsg(n)
    BY <1>2 DEF ServiceSends
  <2> QED
    BY <2>1, <2>2, StreamSendMsg, StreamSendSome
<1>3. CASE ServiceDies \/ SessionEnds
  BY <1>3, StreamEnds
<1>4. CASE ServiceStarts \/ StartEventRunner
  <2>1. UNCHANGED <<stream, open, calls>>
    BY <1>4 DEF ServiceStarts, StartEventRunner, service, client
  <2> QED
    BY <1>1, <2>1
<1>5. CASE StartClient
  <2>1. NewConnection /\ calls' = {}
    BY <1>5 DEF StartClient, Armed, Fresh
  <2> QED
    BY <2>1, StreamNewConnection
<1>6. CASE FdEvent
  <2>1. /\ UNCHANGED <<packets, sending, wire, rPos_, unread, more, sent, got, torn,
                       refused, open>>
        /\ reading = "idle" /\ reading' = "recv" /\ (calls' # {} => ~open)
    BY <1>6 DEF FdEvent, Idle, service
  <2>2. StreamTypeOK'
    BY <2>1 DEF StreamInv, StreamTypeOK, MAX_STREAM_BUF_SIZE
  <2>3. ~torn' => InStep'
    <3>1. Line' = Line
      BY <2>1 DEF Line
    <3> QED
      BY <2>1, <3>1 DEF StreamInv, InStep
  <2> QED
    BY <2>1, <2>2, <2>3 DEF StreamInv, BufferHasRoom, Sending
<1>7. CASE OnReadable
  <2>1. UNCHANGED <<open, calls>>
    BY <1>7 DEF OnReadable, service, client
  <2>2. Recv \/ RecvNothing \/ ParseWaits \/ ParseResets \/ ParseDelivers
    BY <1>7 DEF OnReadable, ReadStep
  <2> QED
    BY <2>1, <2>2, StreamRecv, StreamParseWaits, StreamParseResets, StreamParseDelivers
<1>8. ASSUME NEW call \in {"OnShutdown", "OnException"}, OnDisconnected(call)
      PROVE  StreamInv'
  <2>1. call \in calls
    BY <1>8 DEF OnDisconnected
  <2> QED
    BY <1>8, <2>1, StreamEnds
<1>9. ASSUME NEW h \in Handlers, ReconnectSucceeds(h) PROVE StreamInv'
  <2>1. NewConnection /\ calls' = {}
    BY <1>9 DEF ReconnectSucceeds, Idle
  <2> QED
    BY <2>1, StreamNewConnection
<1>10. ASSUME NEW h \in Handlers, ReconnectFails(h) PROVE StreamInv'
  <2>1. UNCHANGED <<stream, open, calls>>
    BY <1>10 DEF ReconnectFails, service
  <2> QED
    BY <1>1, <2>1
<1>11. CASE UNCHANGED vars
  BY <1>1, <1>11 DEF vars, service, client
<1> QED
  BY <1>2, <1>3, <1>4, <1>5, <1>6, <1>7, <1>8, <1>9, <1>10, <1>11 DEF Next

LEMMA StreamAlways == Spec => []StreamInv
BY InitStream, InitArmed, StreamStep, ArmedKeeps, PTL DEF Spec

\* The buffers hold bytes, and the write position stays inside circBuf_.
THEOREM StreamTypeCorrect == Spec => []StreamTypeOK
<1>1. StreamInv => StreamTypeOK
  BY DEF StreamInv
<1> QED
  BY <1>1, StreamAlways, PTL

\* Whatever sizes, retries, losses and ways of cutting: circBuf_ takes what was
\* read from the socket.
THEOREM BufferAlwaysHasRoom == Spec => []BufferHasRoom
<1>1. StreamInv => BufferHasRoom
  BY DEF StreamInv
<1> QED
  BY <1>1, StreamAlways, PTL

\* The handlers of the client get whole packets, in order.
THEOREM PacketsAreWhole == Spec => []WholeInOrder
<1>1. StreamInv => WholeInOrder
  BY DEF StreamInv, InStep, WholeInOrder
<1> QED
  BY <1>1, StreamAlways, PTL
=============================================================================
