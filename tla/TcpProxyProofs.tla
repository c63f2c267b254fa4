--------------------------- MODULE TcpProxyProofs ---------------------------
(***************************************************************************)
(* What the client of a TCP proxy reads, for any frames it sends, any size *)
(* of socket and buffers, and any timing: whole frames, and of a command   *)
(* its acknowledgement before its data.  And the proxy is a relay, as      *)
(* RelaySpec has it.                                                       *)
(***************************************************************************)
EXTENDS TcpProxy, Integers, FiniteSetTheorems, SequenceTheorems, TLAPS

(***************************************************************************)
(* The lemmas on FlattenSeq are those of the outgoing queue's proofs; they *)
(* do not speak of its constants and variables.                            *)
(***************************************************************************)
L == INSTANCE OutgoingQueueProofs WITH
        Nodes <- {}, NoNode <- 0, Msgs <- {}, Size <- [m \in {} |-> 0], HDR <- 0, CAPACITY <- 0,
        Bufs <- {}, NoBuf <- 0, known <- {}, partial <- <<>>, outgoing <- <<>>, packet <- <<>>,
        wire <- <<>>

LEMMA SameFlatten ==
    ASSUME NEW s
    PROVE  L!FlattenSeq(s) = FlattenSeq(s)
BY DEF L!FlattenSeq, FlattenSeq

LEMMA FlattenEmpty ==
    FlattenSeq(<<>>) = <<>>
BY DEF FlattenSeq

LEMMA FlattenType ==
    ASSUME NEW S, NEW s \in Seq(Seq(S))
    PROVE  FlattenSeq(s) \in Seq(S)
BY L!FlattenType, SameFlatten

LEMMA FlattenConcat ==
    ASSUME NEW S, NEW s \in Seq(Seq(S)), NEW t \in Seq(Seq(S))
    PROVE  FlattenSeq(s \o t) = FlattenSeq(s) \o FlattenSeq(t)
BY L!FlattenConcat, SameFlatten

LEMMA FlattenOne ==
    ASSUME NEW S, NEW x \in Seq(S)
    PROVE  FlattenSeq(<<x>>) = x
BY L!FlattenOne, SameFlatten

LEMMA LastApart ==
    ASSUME NEW T, NEW t \in Seq(T), NEW k \in Nat, Len(t) = k + 1
    PROVE  /\ SubSeq(t, 1, k) \in Seq(T) /\ Len(SubSeq(t, 1, k)) = k
           /\ t[k + 1] \in T
           /\ t = Append(SubSeq(t, 1, k), t[k + 1])
BY L!LastApart

LEMMA Parts ==
    ASSUME NEW T, NEW s \in Seq(T), NEW k \in 0..Len(s)
    PROVE  /\ SubSeq(s, 1, k) \in Seq(T) /\ Len(SubSeq(s, 1, k)) = k
           /\ \A i \in 1..k : SubSeq(s, 1, k)[i] = s[i]
           /\ SubSeq(s, k + 1, Len(s)) \in Seq(T)
           /\ Len(SubSeq(s, k + 1, Len(s))) = Len(s) - k
           /\ \A i \in 1..(Len(s) - k) : SubSeq(s, k + 1, Len(s))[i] = s[i + k]
           /\ s = SubSeq(s, 1, k) \o SubSeq(s, k + 1, Len(s))
BY L!Parts

Kinds == {"ack", "data", "pong", "close", "ping"}
(* What comes from acnetd has come in a datagram. *)
Messages ==
    {m \in [kind : Kinds, n : Nat, id : Nat, len : Nat] : m.kind \in {"ack", "data"} => m.len \in 0..MaxDatagram}

UnitsOf == [m : Messages, part : {1, 2}]
Buffers == [len : 0..BufSize, units : Seq(UnitsOf)]

LEMMA DatagramIs ==
    /\ MaxDatagram \in Nat /\ MaxDatagram > 32 /\ MaxDatagram + 2 < 65536
    /\ \A len \in 0..MaxDatagram : len \in Nat /\ len <= MaxDatagram
<1>1. MaxDatagram \in Nat /\ MaxDatagram > 32 /\ MaxDatagram + 2 < 65536
    BY DEF MaxDatagram
<1> QED
    BY <1>1

LEMMA DatagramSizes == \A len \in Sizes \cup AckSizes : len \in Nat /\ len \in 0..MaxDatagram
<1> SUFFICES ASSUME NEW len \in Sizes \cup AckSizes PROVE len \in Nat /\ len \in 0..MaxDatagram
    OBVIOUS
<1>1. len \in 0..MaxDatagram \/ len \in 4..32
    BY DatagramAssumption, Zenon
<1>2. len \in 0..MaxDatagram => len \in Nat
    BY DatagramIs
<1>3. len \in 4..32 => len \in 0..MaxDatagram
    BY DatagramIs
<1> QED
    BY <1>1, <1>2, <1>3, Zenon

ClientFrames == [op : STRING, fin : BOOLEAN, body : Seq(STRING), len : Nat]

Handlers == {"none"} \cup {FoldLeft(Chosen, "none", lines) : lines \in Openings}
Events == {"pending", "data", "client", "command"}

Processes ==
    [state : {"handshake", "running", "exited"}, handler : Handlers, traffic : {"all", "ack"},
     events : SUBSET Events, done : BOOLEAN, payload : Seq(STRING), len : Nat,
     q : Seq(Buffers), wire : Seq(UnitsOf)]

Fits(s) == Len(s.wire) <= Window

-----------------------------------------------------------------------------
(* What is queued, unit by unit. *)

Flow(q) == FlattenSeq([i \in DOMAIN q |-> q[i].units])
Out(s) == s.wire \o Flow(s.q)

LEMMA PendingIsOut == Pending = Out(p)
BY DEF Pending, Out, Flow

(* What g makes of each element of a sequence. *)
Maps(g, S, T) == g \in [S -> Seq(T)]
Mapped(g, q) == [i \in DOMAIN q |-> g[q[i]]]

LEMMA MappedType ==
    ASSUME NEW S, NEW T, NEW g, Maps(g, S, T), NEW q \in Seq(S)
    PROVE  /\ Mapped(g, q) \in Seq(Seq(T))
           /\ Len(Mapped(g, q)) = Len(q)
           /\ \A i \in 1..Len(q) : Mapped(g, q)[i] = g[q[i]]
<1>1. PICK n \in Nat : n = Len(q) /\ DOMAIN q = 1..n
    BY LenProperties
<1>2. \A i \in 1..n : g[q[i]] \in Seq(T)
    BY <1>1 DEF Maps
<1> DEFINE f == [i \in 1..n |-> g[q[i]]]
<1>3. f \in Seq(Seq(T)) /\ Len(f) = n
    BY <1>2, IsASeq, LenProperties
<1>4. Mapped(g, q) = f
    BY <1>1 DEF Mapped
<1> QED
    BY <1>1, <1>3, <1>4

LEMMA MappedConcat ==
    ASSUME NEW S, NEW T, NEW g, Maps(g, S, T), NEW a \in Seq(S), NEW b \in Seq(S)
    PROVE  FlattenSeq(Mapped(g, a \o b)) = FlattenSeq(Mapped(g, a)) \o FlattenSeq(Mapped(g, b))
<1> DEFINE c == a \o b
           x == Mapped(g, a)
           y == Mapped(g, b)
           z == Mapped(g, c)
<1>1. PICK k \in Nat, l \in Nat : k = Len(a) /\ l = Len(b)
    OBVIOUS
<1>2. /\ c \in Seq(S) /\ Len(c) = k + l
      /\ \A i \in 1..(k + l) : c[i] = IF i <= k THEN a[i] ELSE b[i - k]
    BY <1>1, ConcatProperties
<1> HIDE DEF c
<1>3. /\ x \in Seq(Seq(T)) /\ Len(x) = k /\ \A i \in 1..k : x[i] = g[a[i]]
      /\ y \in Seq(Seq(T)) /\ Len(y) = l /\ \A i \in 1..l : y[i] = g[b[i]]
      /\ z \in Seq(Seq(T)) /\ Len(z) = k + l /\ \A i \in 1..(k + l) : z[i] = g[c[i]]
    <2>1. x \in Seq(Seq(T)) /\ Len(x) = Len(a) /\ \A i \in 1..Len(a) : x[i] = g[a[i]]
        BY MappedType
    <2>2. y \in Seq(Seq(T)) /\ Len(y) = Len(b) /\ \A i \in 1..Len(b) : y[i] = g[b[i]]
        BY MappedType
    <2>3. z \in Seq(Seq(T)) /\ Len(z) = Len(c) /\ \A i \in 1..Len(c) : z[i] = g[c[i]]
        <3>1. c \in Seq(S)
            BY <1>2
        <3> QED
            BY <3>1, MappedType
    <2> HIDE DEF x, y, z
    <2> QED
        BY <1>1, <1>2, <2>1, <2>2, <2>3, Zenon
<1> HIDE DEF x, y, z
<1>4. /\ x \o y \in Seq(Seq(T)) /\ Len(x \o y) = k + l
      /\ \A i \in 1..(k + l) : (x \o y)[i] = IF i <= k THEN x[i] ELSE y[i - k]
    <2>1. x \in Seq(Seq(T)) /\ y \in Seq(Seq(T))
        BY <1>3
    <2>2. /\ x \o y \in Seq(Seq(T)) /\ Len(x \o y) = Len(x) + Len(y)
          /\ \A i \in 1..(Len(x) + Len(y)) :
                (x \o y)[i] = IF i <= Len(x) THEN x[i] ELSE y[i - Len(x)]
        BY <2>1, ConcatProperties
    <2>3. Len(x) = k /\ Len(y) = l
        BY <1>3
    <2> QED
        BY <2>2, <2>3, Zenon
<1>5. ASSUME NEW i \in 1..(k + l)
      PROVE  z[i] = (x \o y)[i]
    <2>1. CASE i <= k
        <3>1. i \in 1..k
            BY <2>1
        <3>2. z[i] = g[c[i]] /\ c[i] = a[i]
            BY <1>2, <1>3, <2>1
        <3>3. (x \o y)[i] = x[i] /\ x[i] = g[a[i]]
            BY <1>3, <1>4, <2>1, <3>1
        <3> QED
            BY <3>2, <3>3, Zenon
    <2>2. CASE ~(i <= k)
        <3>1. i - k \in 1..l
            BY <2>2
        <3>2. z[i] = g[c[i]] /\ c[i] = b[i - k]
            BY <1>2, <1>3, <2>2
        <3>3. (x \o y)[i] = y[i - k] /\ y[i - k] = g[b[i - k]]
            BY <1>3, <1>4, <2>2, <3>1
        <3> QED
            BY <3>2, <3>3, Zenon
    <2> QED
        BY <2>1, <2>2
<1>6. z = x \o y
    BY <1>3, <1>4, <1>5, SeqEqual
<1>7. FlattenSeq(x \o y) = FlattenSeq(x) \o FlattenSeq(y)
    BY <1>3, FlattenConcat
<1> QED
    BY <1>6, <1>7, Zenon DEF c, x, y, z

LEMMA FlowMaps ==
    ASSUME NEW q \in Seq(Buffers)
    PROVE  Flow(q) = FlattenSeq(Mapped([b \in Buffers |-> b.units], q))
<1>1. \A i \in DOMAIN q : q[i] \in Buffers
    OBVIOUS
<1>2. [i \in DOMAIN q |-> q[i].units] = Mapped([b \in Buffers |-> b.units], q)
    BY <1>1 DEF Mapped
<1> QED
    BY <1>2, Zenon DEF Flow

LEMMA FlowType ==
    ASSUME NEW q \in Seq(Buffers)
    PROVE  Flow(q) \in Seq(UnitsOf)
<1> DEFINE g == [b \in Buffers |-> b.units]
<1>1. Maps(g, Buffers, UnitsOf)
    BY DEF Maps, Buffers
<1> HIDE DEF g
<1>2. Mapped(g, q) \in Seq(Seq(UnitsOf))
    BY <1>1, MappedType
<1>3. FlattenSeq(Mapped(g, q)) \in Seq(UnitsOf)
    BY <1>2, FlattenType
<1> QED
    BY <1>3, FlowMaps DEF g

LEMMA FlowConcat ==
    ASSUME NEW a \in Seq(Buffers), NEW b \in Seq(Buffers)
    PROVE  Flow(a \o b) = Flow(a) \o Flow(b)
<1> DEFINE g == [c \in Buffers |-> c.units]
<1>1. Maps(g, Buffers, UnitsOf)
    BY DEF Maps, Buffers
<1>2. Flow(a) = FlattenSeq(Mapped(g, a)) /\ Flow(b) = FlattenSeq(Mapped(g, b))
    BY FlowMaps
<1>3. Flow(a \o b) = FlattenSeq(Mapped(g, a \o b))
    <2>1. a \o b \in Seq(Buffers)
        BY ConcatProperties
    <2> QED
        BY <2>1, FlowMaps
<1> HIDE DEF g
<1>4. FlattenSeq(Mapped(g, a \o b)) = FlattenSeq(Mapped(g, a)) \o FlattenSeq(Mapped(g, b))
    BY <1>1, MappedConcat
<1> QED
    BY <1>2, <1>3, <1>4, Zenon

LEMMA FlowOne ==
    ASSUME NEW b \in Buffers
    PROVE  Flow(<<b>>) = b.units
<1>1. [i \in DOMAIN <<b>> |-> <<b>>[i].units] = <<b.units>> /\ b.units \in Seq(UnitsOf)
    BY DEF Buffers
<1> QED
    BY <1>1, FlattenOne DEF Flow

LEMMA FlowEmpty ==
    Flow(<<>>) = <<>>
<1>1. [i \in DOMAIN <<>> |-> <<>>[i].units] = <<>>
    <2>1. DOMAIN <<>> = {}
        OBVIOUS
    <2> QED
        BY <2>1
<1> QED
    BY <1>1, FlattenEmpty DEF Flow

(***************************************************************************)
(* However much of a frame the last buffer has room for, nothing is lost.  *)
(***************************************************************************)
LEMMA AppendUnitsKeeps ==
    ASSUME NEW q \in Seq(Buffers), q # <<>>, NEW units \in Seq(UnitsOf), Len(units) <= 2
    PROVE  /\ AppendUnits(q, units) \in Seq(Buffers) /\ AppendUnits(q, units) # <<>>
           /\ Flow(AppendUnits(q, units)) = Flow(q) \o units
<1> DEFINE b == Last(q)
           free == BufSize - b.len
           n == Len(units)
           k == IF free < n THEN free ELSE n
           s == SubSeq(units, 1, k)
           rest == SubSeq(units, k + 1, n)
           c == [len |-> b.len + k, units |-> b.units \o s]
           tail == IF rest = <<>> THEN <<>> ELSE <<Buffer(rest)>>
           front == Front(q)
<1>1. AppendUnits(q, units) = (front \o <<c>>) \o tail
    BY DEF AppendUnits
<1>2. /\ front \in Seq(Buffers) /\ b \in Buffers /\ q = Append(front, b)
    <2>1. Len(q) \in Nat \ {0} /\ Len(q) - 1 \in Nat /\ Len(q) = (Len(q) - 1) + 1
        OBVIOUS
    <2> QED
        BY <2>1, LastApart DEF Last, Front
<1>3. /\ BufSize \in Nat /\ b.len \in 0..BufSize /\ b.units \in Seq(UnitsOf)
      /\ n \in Nat /\ n <= 2 /\ free \in Nat /\ b.len + free = BufSize
    BY <1>2, SizesAssumption DEF Buffers
<1>4. k \in 0..n /\ k <= free /\ b.len + k \in 0..BufSize
    BY <1>3
<1>5. /\ s \in Seq(UnitsOf) /\ rest \in Seq(UnitsOf) /\ Len(rest) = n - k
      /\ units = s \o rest
    <2>1. \A i \in 0..n : /\ SubSeq(units, 1, i) \in Seq(UnitsOf)
                          /\ SubSeq(units, i + 1, n) \in Seq(UnitsOf)
                          /\ Len(SubSeq(units, i + 1, n)) = n - i
                          /\ units = SubSeq(units, 1, i) \o SubSeq(units, i + 1, n)
        BY Parts
    <2> QED
        BY <1>4, <2>1, Zenon
<1> HIDE DEF s, rest, b, front, k
<1>6. c \in Buffers /\ c.units = b.units \o s
    BY <1>3, <1>4, <1>5, ConcatProperties DEF Buffers
<1>7. tail \in Seq(Buffers) /\ Flow(tail) = rest
    <2>1. CASE rest = <<>>
        BY <2>1, FlowEmpty, EmptySeq
    <2>2. CASE rest # <<>>
        <3>1. Len(rest) \in 0..BufSize
            BY <1>3, <1>4, <1>5, SizesAssumption
        <3>2. Buffer(rest) \in Buffers /\ Buffer(rest).units = rest
            BY <1>5, <3>1 DEF Buffers, Buffer
        <3>3. Flow(<<Buffer(rest)>>) = rest
            BY <3>2, FlowOne
        <3> QED
            BY <2>2, <3>2, <3>3
    <2> QED
        BY <2>1, <2>2
<1> HIDE DEF c, tail
<1>8. Flow(front \o <<c>>) = Flow(front) \o (b.units \o s)
    <2>1. <<c>> \in Seq(Buffers)
        BY <1>6
    <2>2. Flow(front \o <<c>>) = Flow(front) \o Flow(<<c>>)
        BY <1>2, <2>1, FlowConcat
    <2>3. Flow(<<c>>) = b.units \o s
        BY <1>6, FlowOne
    <2> QED
        BY <2>2, <2>3, Zenon
<1>9. Flow(q) = Flow(front) \o b.units
    <2>1. q = front \o <<b>>
        BY <1>2
    <2>2. Flow(front \o <<b>>) = Flow(front) \o Flow(<<b>>)
        <3>1. <<b>> \in Seq(Buffers)
            BY <1>2
        <3> QED
            BY <1>2, <3>1, FlowConcat
    <2>3. Flow(<<b>>) = b.units
        BY <1>2, FlowOne
    <2> QED
        BY <2>1, <2>2, <2>3, Zenon
<1>10. /\ front \o <<c>> \in Seq(Buffers)
       /\ (front \o <<c>>) \o tail \in Seq(Buffers) /\ (front \o <<c>>) \o tail # <<>>
    <2>1. <<c>> \in Seq(Buffers) /\ Len(<<c>>) = 1
        BY <1>6
    <2>2. front \o <<c>> \in Seq(Buffers) /\ Len(front \o <<c>>) > 0
        BY <1>2, <2>1, ConcatProperties
    <2> HIDE DEF front
    <2> DEFINE d == front \o <<c>>
    <2>3. d \in Seq(Buffers) /\ Len(d) > 0
        BY <2>2
    <2> HIDE DEF d
    <2>4. d \o tail \in Seq(Buffers) /\ d \o tail # <<>>
        BY <1>7, <2>3, ConcatProperties
    <2> QED
        BY <2>2, <2>4 DEF d
<1> DEFINE f == Flow(front)
           u == b.units
<1>11. f \in Seq(UnitsOf) /\ u \in Seq(UnitsOf)
    BY <1>2, <1>3, FlowType
<1>12. Flow((front \o <<c>>) \o tail) = (f \o (u \o s)) \o rest
    BY <1>7, <1>8, <1>10, FlowConcat
<1> HIDE DEF f, u
<1>13. (f \o (u \o s)) \o rest = (f \o u) \o (s \o rest)
    <2>1. f \o (u \o s) = (f \o u) \o s
        BY <1>5, <1>11, ConcatAssociative, SMTT(20)
    <2>2. f \o u \in Seq(UnitsOf)
        BY <1>11, ConcatProperties
    <2> DEFINE v == f \o u
    <2>3. v \in Seq(UnitsOf)
        BY <2>2
    <2> HIDE DEF v
    <2>4. (v \o s) \o rest = v \o (s \o rest)
        BY <1>5, <2>3, ConcatAssociative, SMTT(20)
    <2> QED
        BY <2>1, <2>4, Zenon DEF v
<1> QED
    BY <1>1, <1>5, <1>9, <1>10, <1>12, <1>13 DEF f, u

-----------------------------------------------------------------------------
(* What is sent. *)

(* The fields that sending leaves alone. *)
Same(s, t) ==
    /\ t.state = s.state /\ t.handler = s.handler /\ t.traffic = s.traffic
    /\ t.events = s.events /\ t.payload = s.payload
    /\ s.q # <<>> => t.q # <<>>

LEMMA OutType ==
    ASSUME NEW s \in Processes
    PROVE  Out(s) \in Seq(UnitsOf)
<1>1. s.wire \in Seq(UnitsOf) /\ s.q \in Seq(Buffers)
    BY DEF Processes
<1> QED
    BY <1>1, FlowType, ConcatProperties DEF Out

LEMMA TakenFits ==
    ASSUME NEW s \in Processes, Fits(s), NEW units \in Seq(UnitsOf)
    PROVE  Taken(s, units) \in 0..Len(units) /\ Len(s.wire) + Taken(s, units) <= Window
<1>1. PICK l \in Nat, n \in Nat : l = Len(s.wire) /\ n = Len(units) /\ l <= Window
    BY DEF Processes, Fits
<1>2. Taken(s, units) = IF Window - l < n THEN Window - l ELSE n
    BY <1>1, Zenon DEF Taken
<1>3. Window \in Nat
    BY SizesAssumption
<1> DEFINE k == IF Window - l < n THEN Window - l ELSE n
<1>4. k \in 0..n /\ l + k <= Window
    <2>1. \A x, y, w \in Nat : x <= w =>
             LET m == IF w - x < y THEN w - x ELSE y IN m \in 0..y /\ x + m <= w
        OBVIOUS
    <2> QED
        BY <1>1, <1>3, <2>1, Zenon
<1> HIDE DEF k
<1>5. Taken(s, units) = k
    BY <1>2, Zenon DEF k
<1> QED
    BY <1>1, <1>4, <1>5

LEMMA SendKeeps ==
    ASSUME NEW s \in Processes, Fits(s), NEW units \in Seq(UnitsOf), Len(units) <= 2
    PROVE  /\ Send(s, units) \in Processes /\ Fits(Send(s, units))
           /\ Same(s, Send(s, units))
           /\ Out(Send(s, units)) = Out(s) \o units
<1> DEFINE k == Taken(s, units)
           n == Len(units)
           a == SubSeq(units, 1, k)
           rest == SubSeq(units, k + 1, n)
           w == s.wire
           r == IF rest = <<>> THEN <<>> ELSE <<Buffer(rest)>>
<1>1. /\ w \in Seq(UnitsOf) /\ s.q \in Seq(Buffers) /\ n \in Nat /\ n <= 2
      /\ k \in 0..n /\ Len(w) + k <= Window
    BY TakenFits DEF Processes
<1>2. /\ a \in Seq(UnitsOf) /\ Len(a) = k
      /\ rest \in Seq(UnitsOf) /\ Len(rest) = n - k /\ units = a \o rest
    <2>1. \A i \in 0..n : /\ SubSeq(units, 1, i) \in Seq(UnitsOf)
                          /\ SubSeq(units, i + 1, n) \in Seq(UnitsOf)
                          /\ Len(SubSeq(units, i + 1, n)) = n - i
                          /\ units = SubSeq(units, 1, i) \o SubSeq(units, i + 1, n)
        BY Parts
    <2>2. \A i \in 0..n : Len(SubSeq(units, 1, i)) = i
        OBVIOUS
    <2> QED
        BY <1>1, <2>1, <2>2, Zenon
<1>3. CASE s.q # <<>>
    <2>1. /\ AppendUnits(s.q, units) \in Seq(Buffers) /\ AppendUnits(s.q, units) # <<>>
          /\ Flow(AppendUnits(s.q, units)) = Flow(s.q) \o units
        BY <1>1, <1>3, AppendUnitsKeeps
    <2>2. Send(s, units) = [s EXCEPT !.q = AppendUnits(s.q, units)]
        BY <1>3 DEF Send
    <2>3. Out(Send(s, units)) = w \o (Flow(s.q) \o units)
        BY <2>1, <2>2 DEF Out, Processes
    <2>4. w \o (Flow(s.q) \o units) = (w \o Flow(s.q)) \o units
        <3> DEFINE f == Flow(s.q)
        <3>1. f \in Seq(UnitsOf)
            BY <1>1, FlowType
        <3> HIDE DEF f, w
        <3>2. w \o (f \o units) = (w \o f) \o units
            BY <1>1, <3>1, ConcatAssociative, SMTT(20)
        <3> QED
            BY <3>2, Zenon DEF f
    <2>5. Send(s, units) \in Processes /\ Fits(Send(s, units)) /\ Same(s, Send(s, units))
        BY <2>1, <2>2 DEF Processes, Fits, Same
    <2> QED
        BY <2>3, <2>4, <2>5 DEF Out
<1>4. CASE s.q = <<>>
    <2> HIDE DEF k, a, rest
    <2>1. Send(s, units) = [s EXCEPT !.wire = w \o a, !.q = r]
        BY <1>4, Zenon DEF Send, k, a, rest
    <2>2. r \in Seq(Buffers) /\ Flow(r) = rest
        <3>1. CASE rest = <<>>
            BY <3>1, FlowEmpty, EmptySeq
        <3>2. CASE rest # <<>>
            <4>1. Len(rest) \in 0..BufSize
                BY <1>1, <1>2, SizesAssumption
            <4>2. Buffer(rest) \in Buffers /\ Buffer(rest).units = rest
                BY <1>2, <4>1 DEF Buffers, Buffer
            <4> QED
                BY <3>2, <4>2, FlowOne
        <3> QED
            BY <3>1, <3>2
    <2>3. w \o a \in Seq(UnitsOf) /\ Len(w \o a) = Len(w) + k
        BY <1>1, <1>2, ConcatProperties
    <2> HIDE DEF r
    <2>4. /\ Send(s, units) \in Processes /\ Fits(Send(s, units)) /\ Same(s, Send(s, units))
          /\ Send(s, units).wire = w \o a /\ Send(s, units).q = r
        BY <1>1, <1>4, <2>1, <2>2, <2>3 DEF Processes, Fits, Same
    <2>5. Out(Send(s, units)) = (w \o a) \o rest
        BY <2>2, <2>4 DEF Out
    <2>6. Out(s) = w
        BY <1>1, <1>4, FlowEmpty, ConcatEmptySeq DEF Out
    <2>7. (w \o a) \o rest = w \o (a \o rest)
        <3> HIDE DEF w
        <3> QED
            BY <1>1, <1>2, ConcatAssociative, SMTT(20)
    <2> QED
        BY <1>2, <2>4, <2>5, <2>6, <2>7, Zenon
<1> QED
    BY <1>3, <1>4

LEMMA UnitsType ==
    ASSUME NEW m \in Messages
    PROVE  /\ Units(m) \in Seq(UnitsOf) /\ Len(Units(m)) = 2
           /\ Units(m)[1] = Unit(m, 1) /\ Units(m)[2] = Unit(m, 2)
           /\ <<Unit(m, 1)>> \in Seq(UnitsOf) /\ Len(<<Unit(m, 1)>>) = 1
           /\ <<Unit(m, 2)>> \in Seq(UnitsOf) /\ Len(<<Unit(m, 2)>>) = 1
           /\ <<Unit(m, 1)>> \o <<Unit(m, 2)>> = Units(m)
<1> DEFINE x == Unit(m, 1)
           y == Unit(m, 2)
<1>1. x \in UnitsOf /\ y \in UnitsOf /\ Units(m) = <<x, y>>
    BY DEF Units, Unit, UnitsOf
<1> HIDE DEF x, y
<1>2. /\ <<x, y>> \in Seq(UnitsOf) /\ Len(<<x, y>>) = 2
      /\ <<x, y>>[1] = x /\ <<x, y>>[2] = y
      /\ <<x>> \in Seq(UnitsOf) /\ Len(<<x>>) = 1 /\ <<y>> \in Seq(UnitsOf) /\ Len(<<y>>) = 1
      /\ <<x>> \o <<y>> = <<x, y>>
    <2>1. <<x, y>> \in Seq(UnitsOf) /\ <<x>> \in Seq(UnitsOf) /\ <<y>> \in Seq(UnitsOf)
        BY <1>1
    <2>2. Len(<<x, y>>) = 2 /\ Len(<<x>>) = 1 /\ Len(<<y>>) = 1
        OBVIOUS
    <2>3. <<x>> \o <<y>> = <<x, y>>
        <3> DEFINE a == <<x>>
                   b == <<y>>
                   c == <<x, y>>
        <3>1. /\ a \in Seq(UnitsOf) /\ Len(a) = 1 /\ a[1] = x
              /\ b \in Seq(UnitsOf) /\ Len(b) = 1 /\ b[1] = y
              /\ c \in Seq(UnitsOf) /\ Len(c) = 2 /\ c[1] = x /\ c[2] = y
            BY <2>1, <2>2
        <3> HIDE DEF a, b, c
        <3>2. /\ a \o b \in Seq(UnitsOf) /\ Len(a \o b) = 2
              /\ (a \o b)[1] = x /\ (a \o b)[2] = y
            BY <3>1, ConcatProperties
        <3>3. a \o b = c
            BY <3>1, <3>2, SeqEqual
        <3> QED
            BY <3>3, Zenon DEF a, b, c
    <2> QED
        BY <2>1, <2>2, <2>3
<1> QED
    BY <1>1, <1>2, Zenon DEF x, y

(* A frame goes out whole or not at all. *)
Tells(s, t, m) ==
    /\ t \in Processes /\ Fits(t) /\ Same(s, t)
    /\ Out(t) = Out(s) \o Units(m) \/ (client.conn = "reset" /\ Out(t) = Out(s))

Sends(m) == Out(p') = Out(p) \o Units(m) \/ (client.conn = "reset" /\ Out(p') = Out(p))

LEMMA OnlyDone ==
    ASSUME NEW s \in Processes, Fits(s), NEW b \in BOOLEAN
    PROVE  /\ [s EXCEPT !.done = b] \in Processes /\ Fits([s EXCEPT !.done = b])
           /\ Same(s, [s EXCEPT !.done = b]) /\ Out([s EXCEPT !.done = b]) = Out(s)
BY DEF Processes, Fits, Same, Out

LEMMA SendOrEndTells ==
    ASSUME NEW s \in Processes, Fits(s), NEW m \in Messages
    PROVE  Tells(s, SendOrEnd(s, Units(m)), m)
<1>1. CASE SendFails(s)
    BY <1>1, OnlyDone DEF SendOrEnd, SendFails, Tells
<1>2. CASE ~SendFails(s)
    <2> DEFINE t == Send(s, Units(m))
    <2>1. t \in Processes /\ Fits(t) /\ Same(s, t) /\ Out(t) = Out(s) \o Units(m)
        <3> DEFINE v == Units(m)
        <3>1. v \in Seq(UnitsOf) /\ Len(v) = 2
            BY UnitsType, Zenon
        <3> HIDE DEF v
        <3>3. Len(v) <= 2
            BY <3>1
        <3>2. /\ Send(s, v) \in Processes /\ Fits(Send(s, v)) /\ Same(s, Send(s, v))
              /\ Out(Send(s, v)) = Out(s) \o v
            BY <3>1, <3>3, SendKeeps, Zenon
        <3> QED
            BY <3>2, Zenon DEF v
    <2> HIDE DEF t
    <2>2. Tells(s, [t EXCEPT !.done = FALSE], m)
        BY <2>1, OnlyDone DEF Tells, Same
    <2> QED
        BY <1>2, <2>2 DEF SendOrEnd, t
<1> QED
    BY <1>1, <1>2

LEMMA SendAnywayTells ==
    ASSUME NEW s \in Processes, Fits(s), NEW m \in Messages
    PROVE  Tells(s, SendAnyway(s, Units(m)), m)
<1>1. CASE SendFails(s)
    BY <1>1 DEF SendAnyway, SendFails, Tells, Same
<1>2. CASE ~SendFails(s)
    <2> DEFINE v == Units(m)
    <2>1. v \in Seq(UnitsOf) /\ Len(v) = 2
        BY UnitsType, Zenon
    <2> HIDE DEF v
    <2>4. Len(v) <= 2
        BY <2>1
    <2>2. /\ Send(s, v) \in Processes /\ Fits(Send(s, v)) /\ Same(s, Send(s, v))
          /\ Out(Send(s, v)) = Out(s) \o v
        BY <2>1, <2>4, SendKeeps, Zenon
    <2>3. SendAnyway(s, v) = Send(s, v)
        BY <1>2 DEF SendAnyway
    <2> QED
        BY <2>2, <2>3, Zenon DEF v, Tells
<1> QED
    BY <1>1, <1>2

(***************************************************************************)
(* The two halves of an answer share their fate: if there is a queue, or a *)
(* connection, for the first, so there is for the second.                  *)
(***************************************************************************)
LEMMA AnsweredTells ==
    ASSUME NEW s \in Processes, Fits(s), NEW kind \in Kinds \ {"ack", "data"}, NEW len \in Nat,
           client.frames \in Nat
    PROVE  \E m \in Messages : m.kind = kind /\ Tells(s, Answered(s, kind, len), m)
<1> DEFINE m == Message(kind, 0, client.frames, len)
           t == SendAnyway(s, <<Unit(m, 1)>>)
<1>1. m \in Messages /\ m.kind = kind
    BY DEF Message, Messages
<1> HIDE DEF m
<1>2. Answered(s, kind, len) = SendAnyway(t, <<Unit(m, 2)>>)
    BY DEF Answered, m
<1>3. CASE SendFails(s)
    BY <1>1, <1>2, <1>3 DEF SendAnyway, SendFails, Tells, Same
<1>4. CASE ~SendFails(s)
    <2>1. t = Send(s, <<Unit(m, 1)>>)
        BY <1>4 DEF SendAnyway
    <2>2. t \in Processes /\ Fits(t) /\ Same(s, t) /\ Out(t) = Out(s) \o <<Unit(m, 1)>>
        <3> DEFINE v == <<Unit(m, 1)>>
        <3>1. v \in Seq(UnitsOf) /\ Len(v) = 1
            BY <1>1, UnitsType, Zenon
        <3> HIDE DEF v
        <3>3. Len(v) <= 2
            BY <3>1
        <3>2. /\ Send(s, v) \in Processes /\ Fits(Send(s, v)) /\ Same(s, Send(s, v))
              /\ Out(Send(s, v)) = Out(s) \o v
            BY <3>1, <3>3, SendKeeps, Zenon
        <3> QED
            BY <2>1, <3>2, Zenon DEF v
    <2>3. ~SendFails(t)
        BY <1>4, <2>2 DEF SendFails, Same
    <2> HIDE DEF t
    <2> DEFINE u == Send(t, <<Unit(m, 2)>>)
    <2>4. u \in Processes /\ Fits(u) /\ Same(t, u) /\ Out(u) = Out(t) \o <<Unit(m, 2)>>
        <3> DEFINE v == <<Unit(m, 2)>>
        <3>1. v \in Seq(UnitsOf) /\ Len(v) = 1
            BY <1>1, UnitsType, Zenon
        <3> HIDE DEF v
        <3>3. Len(v) <= 2
            BY <3>1
        <3>2. /\ Send(t, v) \in Processes /\ Fits(Send(t, v)) /\ Same(t, Send(t, v))
              /\ Out(Send(t, v)) = Out(t) \o v
            BY <2>2, <3>1, <3>3, SendKeeps, Zenon
        <3> QED
            BY <3>2, Zenon DEF v
    <2>5. (Out(s) \o <<Unit(m, 1)>>) \o <<Unit(m, 2)>> = Out(s) \o Units(m)
        <3> DEFINE o == Out(s)
                   a == <<Unit(m, 1)>>
                   b == <<Unit(m, 2)>>
        <3>1. o \in Seq(UnitsOf) /\ a \in Seq(UnitsOf) /\ b \in Seq(UnitsOf)
            BY <1>1, OutType, UnitsType
        <3>2. a \o b = Units(m)
            BY <1>1, UnitsType
        <3> HIDE DEF o, a, b
        <3>3. (o \o a) \o b = o \o (a \o b)
            BY <3>1, ConcatAssociative
        <3> QED
            BY <3>2, <3>3, Zenon DEF o, a, b
    <2>6. Answered(s, kind, len) = u
        BY <1>2, <2>3 DEF SendAnyway
    <2> HIDE DEF u
    <2>7. Tells(s, u, m)
        BY <2>2, <2>4, <2>5 DEF Tells, Same
    <2> QED
        BY <1>1, <2>6, <2>7
<1> QED
    BY <1>3, <1>4

-----------------------------------------------------------------------------
(* What the client has still to read, as it grows and shrinks. *)

Whole(s) ==
    \A i \in DOMAIN s :
        /\ s[i].part = 1 => i + 1 \in DOMAIN s /\ s[i + 1] = Unit(s[i].m, 2)
        /\ s[i].part = 2 /\ i > 1 => s[i - 1] = Unit(s[i].m, 1)

Behind(s, served, acks) ==
    \A i \in DOMAIN s : s[i].m.kind = "data" =>
        /\ s[i].m.n <= served
        /\ \A j \in (i + 1)..Len(s) : s[j].m.kind = "ack" => s[j].m.n > s[i].m.n
        /\ \A j \in DOMAIN acks : acks[j].n > s[i].m.n

LEMMA TailOf ==
    ASSUME NEW s \in Seq(UnitsOf), s # <<>>
    PROVE  /\ Tail(s) \in Seq(UnitsOf) /\ Len(s) \in Nat \ {0} /\ Len(Tail(s)) = Len(s) - 1
           /\ \A i \in 1..(Len(s) - 1) : Tail(s)[i] = s[i + 1]
OBVIOUS

LEMMA AddedTo ==
    ASSUME NEW s \in Seq(UnitsOf), NEW m \in Messages
    PROVE  /\ s \o Units(m) \in Seq(UnitsOf) /\ Len(s \o Units(m)) = Len(s) + 2
           /\ \A i \in 1..Len(s) : (s \o Units(m))[i] = s[i]
           /\ (s \o Units(m))[Len(s) + 1] = Unit(m, 1)
           /\ (s \o Units(m))[Len(s) + 2] = Unit(m, 2)
<1> DEFINE u == Units(m)
<1>1. u \in Seq(UnitsOf) /\ Len(u) = 2 /\ u[1] = Unit(m, 1) /\ u[2] = Unit(m, 2)
    BY UnitsType, Zenon
<1> HIDE DEF u
<1>2. PICK n \in Nat : n = Len(s)
    OBVIOUS
<1>3. /\ s \o u \in Seq(UnitsOf) /\ Len(s \o u) = Len(s) + Len(u)
      /\ \A i \in 1..(Len(s) + Len(u)) : (s \o u)[i] = IF i <= Len(s) THEN s[i] ELSE u[i - Len(s)]
    BY <1>1, ConcatProperties
<1> DEFINE t == s \o u
<1>4. t \in Seq(UnitsOf) /\ Len(t) = n + 2 /\ \A i \in 1..(n + 2) : t[i] = IF i <= n THEN s[i] ELSE u[i - n]
    BY <1>1, <1>2, <1>3, Zenon
<1> HIDE DEF t
<1>5. t[n + 1] = u[1] /\ t[n + 2] = u[2] /\ \A i \in 1..n : t[i] = s[i]
    BY <1>4
<1> QED
    BY <1>1, <1>2, <1>4, <1>5, Zenon DEF t, u

LEMMA WholeTail ==
    ASSUME NEW s \in Seq(UnitsOf), s # <<>>, Whole(s)
    PROVE  Whole(Tail(s))
<1>1. PICK n \in Nat : Len(s) = n + 1 /\ DOMAIN s = 1..(n + 1)
    <2>1. Len(s) \in Nat \ {0}
        OBVIOUS
    <2>2. Len(s) - 1 \in Nat /\ Len(s) = (Len(s) - 1) + 1
        BY <2>1
    <2> QED
        BY <2>2, LenProperties
<1> DEFINE t == Tail(s)
<1>2. DOMAIN t = 1..n /\ \A i \in 1..n : t[i] = s[i + 1]
    BY <1>1, TailOf, LenProperties
<1> HIDE DEF t
<1>3. ASSUME NEW i \in 1..n
      PROVE  /\ t[i].part = 1 => i + 1 \in 1..n /\ t[i + 1] = Unit(t[i].m, 2)
             /\ t[i].part = 2 /\ i > 1 => t[i - 1] = Unit(t[i].m, 1)
    <2>1. i + 1 \in 1..(n + 1) /\ i + 1 > 1 /\ (i + 1) - 1 = i
        OBVIOUS
    <2>2. /\ s[i + 1].part = 1 => (i + 1) + 1 \in 1..(n + 1) /\ s[(i + 1) + 1] = Unit(s[i + 1].m, 2)
          /\ s[i + 1].part = 2 => s[(i + 1) - 1] = Unit(s[i + 1].m, 1)
        BY <1>1, <2>1 DEF Whole
    <2>3. t[i].part = 1 => i + 1 \in 1..n /\ t[i + 1] = Unit(t[i].m, 2)
        BY <1>2, <2>1, <2>2
    <2>4. i > 1 => i - 1 \in 1..n /\ (i - 1) + 1 = i
        OBVIOUS
    <2>5. t[i].part = 2 /\ i > 1 => t[i - 1] = Unit(t[i].m, 1)
        BY <1>2, <2>1, <2>2, <2>4
    <2> QED
        BY <2>3, <2>5
<1> QED
    BY <1>2, <1>3 DEF Whole, t

LEMMA WholeAdds ==
    ASSUME NEW s \in Seq(UnitsOf), NEW m \in Messages, Whole(s)
    PROVE  Whole(s \o Units(m))
<1>1. PICK n \in Nat : Len(s) = n /\ DOMAIN s = 1..n
    BY LenProperties
<1> DEFINE t == s \o Units(m)
<1>2. /\ DOMAIN t = 1..(n + 2) /\ \A i \in 1..n : t[i] = s[i]
      /\ t[n + 1] = Unit(m, 1) /\ t[n + 2] = Unit(m, 2)
    BY <1>1, AddedTo, LenProperties
<1> HIDE DEF t
<1>3. ASSUME NEW i \in 1..(n + 2)
      PROVE  /\ t[i].part = 1 => i + 1 \in 1..(n + 2) /\ t[i + 1] = Unit(t[i].m, 2)
             /\ t[i].part = 2 /\ i > 1 => t[i - 1] = Unit(t[i].m, 1)
    <2>1. CASE i \in 1..n
        <3>1. /\ s[i].part = 1 => i + 1 \in 1..n /\ s[i + 1] = Unit(s[i].m, 2)
              /\ s[i].part = 2 /\ i > 1 => s[i - 1] = Unit(s[i].m, 1)
            BY <1>1, <2>1 DEF Whole
        <3>2. i > 1 => i - 1 \in 1..n
            BY <2>1
        <3>3. i + 1 \in 1..n => i + 1 \in 1..(n + 2)
            OBVIOUS
        <3> QED
            BY <1>2, <2>1, <3>1, <3>2, <3>3
    <2>2. CASE i = n + 1
        <3>1. i + 1 = n + 2 /\ n + 2 \in 1..(n + 2)
            BY <2>2
        <3> QED
            BY <1>2, <2>2, <3>1 DEF Unit
    <2>3. CASE i = n + 2
        <3>1. i - 1 = n + 1
            BY <2>3
        <3> QED
            BY <1>2, <2>3, <3>1 DEF Unit
    <2> QED
        BY <2>1, <2>2, <2>3
<1> QED
    BY <1>2, <1>3 DEF Whole, t

LEMMA BehindTail ==
    ASSUME NEW s \in Seq(UnitsOf), s # <<>>, NEW served, NEW acks, Behind(s, served, acks)
    PROVE  Behind(Tail(s), served, acks)
<1>1. PICK n \in Nat : Len(s) = n + 1 /\ DOMAIN s = 1..(n + 1)
    <2>1. Len(s) \in Nat \ {0}
        OBVIOUS
    <2>2. Len(s) - 1 \in Nat /\ Len(s) = (Len(s) - 1) + 1
        BY <2>1
    <2> QED
        BY <2>2, LenProperties
<1> DEFINE t == Tail(s)
<1>2. DOMAIN t = 1..n /\ Len(t) = n /\ \A i \in 1..n : t[i] = s[i + 1]
    BY <1>1, TailOf, LenProperties
<1> HIDE DEF t
<1>3. ASSUME NEW i \in 1..n, t[i].m.kind = "data"
      PROVE  /\ t[i].m.n <= served
             /\ \A j \in (i + 1)..n : t[j].m.kind = "ack" => t[j].m.n > t[i].m.n
             /\ \A j \in DOMAIN acks : acks[j].n > t[i].m.n
    <2>1. i + 1 \in 1..(n + 1) /\ t[i] = s[i + 1]
        BY <1>2
    <2>2. /\ t[i].m.n <= served
          /\ \A j \in ((i + 1) + 1)..(n + 1) : s[j].m.kind = "ack" => s[j].m.n > t[i].m.n
          /\ \A j \in DOMAIN acks : acks[j].n > t[i].m.n
        BY <1>1, <1>3, <2>1 DEF Behind
    <2>3. \A j \in (i + 1)..n : j + 1 \in ((i + 1) + 1)..(n + 1) /\ t[j] = s[j + 1]
        BY <1>2
    <2> QED
        BY <2>2, <2>3
<1> QED
    BY <1>2, <1>3 DEF Behind, t

LEMMA BehindAdds ==
    ASSUME NEW s \in Seq(UnitsOf), NEW m \in Messages, NEW served \in Nat, NEW acks,
           Behind(s, served, acks),
           m.kind = "ack" => \E j \in DOMAIN acks : acks[j] = m,
           NEW left,
           \A j \in DOMAIN left : \E k \in DOMAIN acks : left[j] = acks[k],
           m.kind = "data" => m.n <= served /\ DOMAIN left = {}
    PROVE  Behind(s \o Units(m), served, left)
<1>1. PICK n \in Nat : Len(s) = n /\ DOMAIN s = 1..n
    BY LenProperties
<1> DEFINE t == s \o Units(m)
<1>2. /\ DOMAIN t = 1..(n + 2) /\ Len(t) = n + 2 /\ \A i \in 1..n : t[i] = s[i]
      /\ t[n + 1].m = m /\ t[n + 2].m = m
    <2>1. /\ t \in Seq(UnitsOf) /\ Len(t) = n + 2 /\ \A i \in 1..n : t[i] = s[i]
          /\ t[n + 1] = Unit(m, 1) /\ t[n + 2] = Unit(m, 2)
        BY <1>1, AddedTo
    <2> HIDE DEF t
    <2> QED
        BY <2>1, LenProperties DEF Unit
<1> HIDE DEF t
<1>3. ASSUME NEW i \in 1..(n + 2), t[i].m.kind = "data"
      PROVE  /\ t[i].m.n <= served
             /\ \A j \in (i + 1)..(n + 2) : t[j].m.kind = "ack" => t[j].m.n > t[i].m.n
             /\ \A j \in DOMAIN left : left[j].n > t[i].m.n
    <2>1. CASE i \in 1..n
        <3>1. /\ t[i] = s[i] /\ t[i].m.n <= served
              /\ \A j \in (i + 1)..n : s[j].m.kind = "ack" => s[j].m.n > t[i].m.n
              /\ \A j \in DOMAIN acks : acks[j].n > t[i].m.n
            BY <1>1, <1>2, <1>3, <2>1 DEF Behind
        <3>2. ASSUME NEW j \in (i + 1)..(n + 2), t[j].m.kind = "ack"
              PROVE  t[j].m.n > t[i].m.n
            <4>1. CASE j \in (i + 1)..n
                <5>1. j \in 1..n
                    BY <2>1, <4>1
                <5> QED
                    BY <1>2, <3>1, <3>2, <4>1, <5>1
            <4>2. CASE j = n + 1 \/ j = n + 2
                BY <1>2, <3>1, <3>2, <4>2
            <4> QED
                BY <2>1, <4>1, <4>2
        <3> QED
            BY <3>1, <3>2
    <2>2. CASE i = n + 1 \/ i = n + 2
        <3>1. t[i].m = m /\ m.kind = "data"
            BY <1>2, <1>3, <2>2
        <3>2. \A j \in (i + 1)..(n + 2) : t[j].m = m
            BY <1>2, <2>2
        <3> QED
            BY <3>1, <3>2
    <2> QED
        BY <2>1, <2>2
<1> QED
    BY <1>2, <1>3 DEF Behind, t

-----------------------------------------------------------------------------
(* The invariant. *)

ClientType ==
    client \in [up : Seq(ClientFrames), half : BOOLEAN, conn : {"open", "eof", "reset"}, frames : Nat]

DaemonType ==
    daemon \in [cmds : Seq(Nat), acks : Seq(Messages), data : Seq(Messages),
                served : Nat, sent : Nat, lost : BOOLEAN]

ProcessType == p \in Processes /\ Fits(p)

(***************************************************************************)
(* One command at a time, and while it is under way nothing else: what     *)
(* poll() has found is still there when its turn comes.                    *)
(***************************************************************************)
Turns ==
    /\ daemon.cmds # <<>> \/ daemon.acks # <<>> => p.traffic = "ack"
    /\ daemon.cmds = <<>> \/ daemon.acks = <<>>
    /\ Len(daemon.cmds) <= 1 /\ Len(daemon.acks) <= 1
    /\ p.events \cap {"pending", "data", "client"} # {} => p.traffic = "all"
    /\ "pending" \in p.events => p.q # <<>>
    /\ "data" \in p.events => daemon.data # <<>>
    /\ "command" \in p.events => daemon.acks # <<>>

(***************************************************************************)
(* A command that acnetd has not served is newer than all that it has.     *)
(***************************************************************************)
Numbers ==
    /\ Len(client.up) <= client.frames
    /\ daemon.served <= FramesRead
    /\ \A i \in DOMAIN daemon.cmds : daemon.served < daemon.cmds[i] /\ daemon.cmds[i] <= FramesRead

FromDaemon ==
    /\ \A i \in DOMAIN daemon.acks : daemon.acks[i].kind = "ack"
    /\ \A i \in DOMAIN daemon.data : daemon.data[i].kind = "data" /\ daemon.data[i].n <= daemon.served

Stream == Whole(Out(p)) /\ Behind(Out(p), daemon.served, daemon.acks)

IInv ==
    /\ ClientType /\ DaemonType /\ ProcessType
    /\ Turns /\ Numbers /\ FromDaemon /\ Stream

-----------------------------------------------------------------------------
(* What steps of one kind have in common. *)

LEMMA HeadThenTail ==
    ASSUME NEW T, NEW s \in Seq(T), s # <<>>
    PROVE  /\ Head(s) \in T /\ Head(s) = s[1] /\ Tail(s) \in Seq(T)
           /\ Len(s) \in Nat \ {0} /\ Len(Tail(s)) = Len(s) - 1
           /\ \A i \in 1..(Len(s) - 1) : Tail(s)[i] = s[i + 1]
           /\ s = <<Head(s)>> \o Tail(s)
<1>1. /\ Head(s) \in T /\ Head(s) = s[1] /\ Tail(s) \in Seq(T)
      /\ Len(s) \in Nat \ {0} /\ Len(Tail(s)) = Len(s) - 1
      /\ \A i \in 1..(Len(s) - 1) : Tail(s)[i] = s[i + 1]
    OBVIOUS
<1> DEFINE a == <<Head(s)>>
           t == Tail(s)
<1>2. a \in Seq(T) /\ Len(a) = 1 /\ a[1] = s[1] /\ t \in Seq(T)
    BY <1>1
<1>3. Len(t) = Len(s) - 1 /\ \A i \in 1..(Len(s) - 1) : t[i] = s[i + 1]
    BY <1>1
<1> HIDE DEF a, t
<1>4. /\ a \o t \in Seq(T) /\ Len(a \o t) = Len(a) + Len(t)
      /\ \A i \in 1..(Len(a) + Len(t)) : (a \o t)[i] = IF i <= Len(a) THEN a[i] ELSE t[i - Len(a)]
    BY <1>2, ConcatProperties
<1> DEFINE u == a \o t
<1>5. u \in Seq(T) /\ Len(u) = 1 + Len(t) /\ \A i \in 1..(1 + Len(t)) : u[i] = IF i <= 1 THEN a[i] ELSE t[i - 1]
    BY <1>2, <1>4, Zenon
<1> HIDE DEF u
<1>6. Len(u) = Len(s)
    BY <1>1, <1>3, <1>5
<1>7. ASSUME NEW i \in 1..Len(s) PROVE u[i] = s[i]
    <2>1. CASE i = 1
        BY <1>1, <1>2, <1>3, <1>5, <2>1
    <2>2. CASE i # 1
        <3>1. i - 1 \in 1..(Len(s) - 1) /\ (i - 1) + 1 = i /\ i \in 1..(1 + Len(t)) /\ ~(i <= 1)
            BY <1>1, <1>3, <2>2
        <3> QED
            BY <1>3, <1>5, <3>1
    <2> QED
        BY <2>1, <2>2
<1>8. s = u
    BY <1>5, <1>6, <1>7, SeqEqual
<1> QED
    BY <1>1, <1>8, Zenon DEF a, t, u

LEMMA TailConcat ==
    ASSUME NEW T, NEW a \in Seq(T), a # <<>>, NEW b \in Seq(T)
    PROVE  a \o b # <<>> /\ Tail(a \o b) = Tail(a) \o b
<1>1. PICK k \in Nat, l \in Nat : Len(a) = k + 1 /\ Len(b) = l
    <2>1. Len(a) - 1 \in Nat /\ Len(a) = (Len(a) - 1) + 1 /\ Len(b) \in Nat
        BY HeadThenTail
    <2> QED
        BY <2>1, Zenon
<1> DEFINE m == k + 1
           c == a \o b
           t == Tail(a)
           u == Tail(c)
           v == t \o b
<1>2. t \in Seq(T) /\ Len(t) = k /\ \A i \in 1..k : t[i] = a[i + 1]
    <2>1. (k + 1) - 1 = k
        OBVIOUS
    <2> QED
        BY <1>1, <2>1, HeadThenTail
<1> HIDE DEF t, m
<1>3. m \in Nat /\ m = k + 1 /\ Len(a) = m
    BY <1>1 DEF m
<1>4. c \in Seq(T) /\ Len(c) = m + l /\ \A i \in 1..(m + l) : c[i] = IF i <= m THEN a[i] ELSE b[i - m]
    <2>1. /\ c \in Seq(T) /\ Len(c) = Len(a) + Len(b)
          /\ \A i \in 1..(Len(a) + Len(b)) : c[i] = IF i <= Len(a) THEN a[i] ELSE b[i - Len(a)]
        BY ConcatProperties
    <2> QED
        BY <1>1, <1>3, <2>1, Zenon
<1>5. v \in Seq(T) /\ Len(v) = k + l /\ \A i \in 1..(k + l) : v[i] = IF i <= k THEN t[i] ELSE b[i - k]
    <2>1. /\ v \in Seq(T) /\ Len(v) = Len(t) + Len(b)
          /\ \A i \in 1..(Len(t) + Len(b)) : v[i] = IF i <= Len(t) THEN t[i] ELSE b[i - Len(t)]
        BY <1>2, ConcatProperties
    <2> QED
        BY <1>1, <1>2, <2>1, Zenon
<1> HIDE DEF c, v
<1>6. c # <<>> /\ u \in Seq(T) /\ Len(u) = k + l /\ \A i \in 1..(k + l) : u[i] = c[i + 1]
    <2>1. c # <<>>
        BY <1>3, <1>4
    <2>2. (m + l) - 1 = k + l
        BY <1>3
    <2> QED
        BY <1>4, <2>1, <2>2, HeadThenTail
<1> HIDE DEF u
<1>7. ASSUME NEW i \in 1..(k + l) PROVE u[i] = v[i]
    <2>1. i + 1 \in 1..(m + l)
        BY <1>3
    <2>2. CASE i <= k
        <3>1. i \in 1..k /\ i + 1 <= m
            BY <1>3, <2>2
        <3> QED
            BY <1>2, <1>4, <1>5, <1>6, <2>1, <2>2, <3>1, Zenon
    <2>3. CASE ~(i <= k)
        <3>1. ~(i + 1 <= m) /\ (i + 1) - m = i - k
            BY <1>3, <2>3
        <3> QED
            BY <1>4, <1>5, <1>6, <2>1, <2>3, <3>1, Zenon
    <2> QED
        BY <2>2, <2>3
<1>8. u = v
    BY <1>5, <1>6, <1>7, SeqEqual
<1> QED
    BY <1>6, <1>8, Zenon DEF c, t, u, v

LEMMA BehindLater ==
    ASSUME NEW s \in Seq(UnitsOf), NEW served \in Nat, NEW acks, Behind(s, served, acks),
           NEW now \in Nat, served <= now, NEW left,
           \A j \in DOMAIN left :
               (left[j].n \in Nat /\ left[j].n > served) \/ \E k \in DOMAIN acks : left[j] = acks[k]
    PROVE  Behind(s, now, left)
<1>1. ASSUME NEW i \in DOMAIN s, s[i].m.kind = "data"
      PROVE  /\ s[i].m.n <= now
             /\ \A j \in (i + 1)..Len(s) : s[j].m.kind = "ack" => s[j].m.n > s[i].m.n
             /\ \A j \in DOMAIN left : left[j].n > s[i].m.n
    <2>1. s[i].m.n \in Nat
        <3>1. s[i] \in UnitsOf
            OBVIOUS
        <3> QED
            BY <3>1 DEF UnitsOf, Messages
    <2>2. /\ s[i].m.n <= served
          /\ \A j \in (i + 1)..Len(s) : s[j].m.kind = "ack" => s[j].m.n > s[i].m.n
          /\ \A j \in DOMAIN acks : acks[j].n > s[i].m.n
        BY <1>1, Zenon DEF Behind
    <2>3. s[i].m.n <= now
        BY <2>1, <2>2
    <2>4. ASSUME NEW j \in DOMAIN left PROVE left[j].n > s[i].m.n
        <3>1. CASE left[j].n \in Nat /\ left[j].n > served
            BY <2>1, <2>2, <3>1
        <3>2. CASE \E k \in DOMAIN acks : left[j] = acks[k]
            BY <2>2, <3>2
        <3> QED
            BY <3>1, <3>2
    <2> QED
        BY <2>2, <2>3, <2>4
<1> QED
    BY <1>1, Zenon DEF Behind

LEMMA StreamGoesOn ==
    ASSUME IInv, daemon'.served \in Nat, daemon.served <= daemon'.served,
           Out(p') = Out(p) \/ (Out(p) # <<>> /\ Out(p') = Tail(Out(p))),
           \A j \in DOMAIN daemon'.acks :
               \/ daemon'.acks[j].n \in Nat /\ daemon'.acks[j].n > daemon.served
               \/ \E k \in DOMAIN daemon.acks : daemon'.acks[j] = daemon.acks[k]
    PROVE  Stream'
<1> DEFINE s == Out(p)
           t == Out(p')
<1>1. /\ s \in Seq(UnitsOf) /\ daemon.served \in Nat
      /\ Whole(s) /\ Behind(s, daemon.served, daemon.acks)
    BY OutType DEF IInv, Stream, DaemonType, ProcessType
<1> HIDE DEF s, t
<1>2. t = s \/ (s # <<>> /\ t = Tail(s))
    BY DEF s, t
<1>3. /\ t \in Seq(UnitsOf) /\ Whole(t) /\ Behind(t, daemon.served, daemon.acks)
    <2>1. CASE t = s
        BY <1>1, <2>1
    <2>2. CASE s # <<>> /\ t = Tail(s)
        BY <1>1, <2>2, TailOf, WholeTail, BehindTail
    <2> QED
        BY <1>2, <2>1, <2>2
<1>4. Behind(t, daemon'.served, daemon'.acks)
    BY <1>1, <1>3, BehindLater
<1> QED
    BY <1>3, <1>4, Zenon DEF Stream, t

LEMMA StreamTakes ==
    ASSUME IInv, NEW m \in Messages,
           Out(p') = Out(p) \o Units(m) \/ Out(p') = Out(p),
           m.kind = "ack" => \E j \in DOMAIN daemon.acks : daemon.acks[j] = m,
           m.kind = "data" => m.n <= daemon.served /\ DOMAIN daemon'.acks = {},
           daemon'.served = daemon.served,
           \A j \in DOMAIN daemon'.acks : \E k \in DOMAIN daemon.acks : daemon'.acks[j] = daemon.acks[k]
    PROVE  Stream'
<1> DEFINE s == Out(p)
           t == Out(p')
<1>1. /\ s \in Seq(UnitsOf) /\ daemon.served \in Nat
      /\ Whole(s) /\ Behind(s, daemon.served, daemon.acks)
    BY OutType DEF IInv, Stream, DaemonType, ProcessType
<1> HIDE DEF s, t
<1>2. t = s \o Units(m) \/ t = s
    BY DEF s, t
<1>3. Whole(t) /\ Behind(t, daemon'.served, daemon'.acks)
    <2>1. CASE t = s
        BY <1>1, <2>1, BehindLater
    <2>2. CASE t = s \o Units(m)
        <3>1. Whole(s \o Units(m))
            BY <1>1, WholeAdds
        <3>2. Behind(s \o Units(m), daemon.served, daemon'.acks)
            BY <1>1, BehindAdds
        <3> QED
            BY <2>2, <3>1, <3>2
    <2> QED
        BY <1>2, <2>1, <2>2
<1> QED
    BY <1>3, Zenon DEF Stream, t

(* The proxy alone takes a step, and nothing is sent. *)
LEMMA Quietly ==
    ASSUME IInv, client' = client, daemon' = daemon,
           ProcessType', Out(p') = Out(p), Turns'
    PROVE  IInv'
<1>1. ClientType' /\ DaemonType' /\ Numbers' /\ FromDaemon'
    BY DEF IInv, ClientType, DaemonType, Numbers, FramesRead, FromDaemon
<1>2. Stream'
    <2>1. daemon.served \in Nat
        BY DEF IInv, DaemonType
    <2> QED
        BY <2>1, StreamGoesOn
<1> QED
    BY <1>1, <1>2 DEF IInv

-----------------------------------------------------------------------------
(* The client, and acnetd. *)

LEMMA HandshakeStep ==
    ASSUME IInv, NEW lines \in Openings, NEW inTime \in BOOLEAN, Handshake(lines, inTime)
    PROVE  IInv' /\ Out(p') = Out(p)
<1> DEFINE h == IF inTime THEN FoldLeft(Chosen, "none", lines) ELSE "none"
<1>1. h \in Handlers
    BY DEF Handlers
<1> HIDE DEF h
<1>2. /\ p.state = "handshake" /\ client' = client /\ daemon' = daemon
      /\ p' = [p EXCEPT !.handler = h, !.state = IF h = "none" THEN "exited" ELSE "running"]
    BY DEF Handshake, h
<1>3. ProcessType' /\ Out(p') = Out(p)
    BY <1>1, <1>2 DEF IInv, ProcessType, Processes, Fits, Out
<1>4. Turns'
    BY <1>2 DEF IInv, ProcessType, Processes, Turns
<1> QED
    BY <1>2, <1>3, <1>4, Quietly

LEMMA WriteStep ==
    ASSUME IInv, NEW f \in Frames, NEW half \in BOOLEAN, Write(f, half)
    PROVE  IInv'
<1> DEFINE up == client.up
<1>1. /\ client \in [up : Seq(ClientFrames), half : BOOLEAN, conn : {"open", "eof", "reset"}, frames : Nat]
      /\ client' = [client EXCEPT !.up = Append(up, f), !.half = half, !.frames = client.frames + 1]
      /\ p' = p /\ daemon' = daemon
    BY DEF IInv, ClientType, Write
<1>2. f \in ClientFrames
    BY FramesAssumption DEF ClientFrames
<1>3. /\ Append(up, f) \in Seq(ClientFrames) /\ Len(Append(up, f)) = Len(up) + 1
      /\ Len(up) \in Nat /\ client.frames + 1 \in Nat
    BY <1>1, <1>2
<1>4. ClientType'
    BY <1>1, <1>3 DEF ClientType
<1>5. Numbers'
    <2>1. client'.up = Append(up, f) /\ client'.frames = client.frames + 1
        BY <1>1
    <2>2. FramesRead' = FramesRead /\ Len(client'.up) <= client'.frames
        BY <1>1, <1>3, <2>1 DEF FramesRead, IInv, Numbers
    <2> QED
        BY <1>1, <2>2 DEF IInv, Numbers
<1>6. Stream'
    BY <1>1, StreamGoesOn DEF IInv, DaemonType
<1> QED
    BY <1>1, <1>4, <1>5, <1>6 DEF IInv, DaemonType, ProcessType, Turns, FromDaemon

(* Nothing happens but to the connection. *)
LEMMA ConnectionStep ==
    ASSUME IInv, WriteRest \/ (\E how \in {"eof", "reset"} : Leave(how))
    PROVE  IInv'
<1>1. /\ p' = p /\ daemon' = daemon
      /\ client'.up = client.up /\ client'.frames = client.frames
      /\ ClientType'
    BY DEF IInv, ClientType, WriteRest, Leave
<1>2. Stream'
    BY <1>1, StreamGoesOn DEF IInv, DaemonType
<1> QED
    BY <1>1, <1>2 DEF IInv, DaemonType, ProcessType, Turns, Numbers, FramesRead, FromDaemon

LEMMA ReadStep ==
    ASSUME IInv, Read
    PROVE  IInv' /\ Out(p) # <<>> /\ Out(p') = Tail(Out(p))
<1> DEFINE w == p.wire
           f == Flow(p.q)
<1>1. /\ p \in Processes /\ w \in Seq(UnitsOf) /\ f \in Seq(UnitsOf) /\ w # <<>> /\ Len(w) <= Window
      /\ p' = [p EXCEPT !.wire = Tail(w)] /\ client' = client /\ daemon' = daemon
    BY FlowType DEF IInv, ProcessType, Processes, Fits, Read
<1>2. ProcessType'
    <2>1. Tail(w) \in Seq(UnitsOf) /\ Len(Tail(w)) <= Window
        BY <1>1, HeadThenTail, SizesAssumption
    <2> QED
        BY <1>1, <2>1 DEF ProcessType, Processes, Fits
<1>3. Out(p) # <<>> /\ Out(p') = Tail(Out(p))
    <2>1. Out(p) = w \o f /\ Out(p') = Tail(w) \o f
        BY <1>1 DEF Out, Processes
    <2> HIDE DEF w, f
    <2>2. w \o f # <<>> /\ Tail(w \o f) = Tail(w) \o f
        BY <1>1, ConcatProperties, TailConcat
    <2> QED
        BY <2>1, <2>2, Zenon
<1>4. Stream'
    <2>1. daemon' = daemon /\ daemon.served \in Nat
        BY <1>1 DEF IInv, DaemonType
    <2> QED
        BY <1>3, <2>1, StreamGoesOn
<1> QED
    BY <1>1, <1>2, <1>3, <1>4 DEF IInv, ClientType, DaemonType, Processes, Turns, Numbers, FramesRead, FromDaemon

LEMMA ServeStep ==
    ASSUME IInv, ServeCommand
    PROVE  IInv'
<1> DEFINE n == Head(daemon.cmds)
<1>0. PICK len \in AckSizes :
          daemon' = [daemon EXCEPT !.cmds = Tail(@), !.acks = Append(@, Message("ack", n, 0, len)),
                                   !.served = n]
    BY DEF ServeCommand
<1> DEFINE m == Message("ack", n, 0, len)
<1>1. /\ daemon.cmds \in Seq(Nat) /\ daemon.cmds # <<>> /\ Len(daemon.cmds) <= 1
      /\ daemon.acks = <<>>
      /\ daemon \in [cmds : Seq(Nat), acks : Seq(Messages), data : Seq(Messages),
                     served : Nat, sent : Nat, lost : BOOLEAN]
    BY DEF IInv, DaemonType, Turns, ServeCommand
<1>2. n \in Nat /\ n = daemon.cmds[1] /\ Tail(daemon.cmds) = <<>> /\ 1 \in DOMAIN daemon.cmds
    BY <1>1
<1>3. m \in Messages /\ m.kind = "ack" /\ m.n = n
    <2>1. len \in Nat /\ len \in 0..MaxDatagram
        BY <1>0, DatagramSizes
    <2> QED
        BY <1>2, <2>1 DEF Message, Messages, Kinds
<1>4. Append(daemon.acks, m) = <<m>>
    BY <1>1, <1>3
<1>5. /\ daemon' = [daemon EXCEPT !.cmds = <<>>, !.acks = <<m>>, !.served = n]
      /\ client' = client /\ p' = p
    BY <1>0, <1>2, <1>4 DEF ServeCommand
<1> HIDE DEF m, n
<1>6. /\ daemon'.cmds = <<>> /\ daemon'.acks = <<m>> /\ daemon'.served = n /\ daemon'.data = daemon.data
      /\ <<m>> \in Seq(Messages) /\ Len(<<m>>) = 1 /\ DOMAIN <<m>> = {1} /\ <<m>>[1] = m
    BY <1>1, <1>3, <1>5
<1>7. DaemonType'
    <2>1. <<>> \in Seq(Nat)
        OBVIOUS
    <2> QED
        BY <1>1, <1>2, <1>5, <1>6, <2>1 DEF DaemonType
<1>8. daemon.served \in Nat /\ daemon.served < n /\ n <= FramesRead /\ FramesRead \in Int
    BY <1>1, <1>2 DEF IInv, Numbers, FramesRead, ClientType
<1>9. Numbers'
    <2>1. FramesRead' = FramesRead
        BY <1>5 DEF FramesRead
    <2>2. DOMAIN daemon'.cmds = {}
        BY <1>6
    <2> QED
        BY <1>5, <1>6, <1>8, <2>1, <2>2 DEF IInv, Numbers
<1>10. FromDaemon'
    <2>1. \A i \in DOMAIN daemon.data : daemon.data[i].kind = "data" /\ daemon.data[i].n <= n
        <3> TAKE i \in DOMAIN daemon.data
        <3>1. daemon.data[i].n \in Nat
            <4>1. daemon.data[i] \in Messages
                BY <1>1
            <4> QED
                BY <4>1 DEF Messages
        <3> QED
            BY <1>2, <1>8, <3>1 DEF IInv, FromDaemon
    <2> QED
        BY <1>3, <1>6, <2>1 DEF FromDaemon
<1>11. Stream'
    BY <1>2, <1>3, <1>5, <1>6, <1>8, StreamGoesOn
<1>12. Turns'
    BY <1>1, <1>5, <1>6 DEF IInv, Turns
<1> QED
    BY <1>5, <1>7, <1>9, <1>10, <1>11, <1>12 DEF IInv, ClientType, ProcessType

LEMMA SendDataStep ==
    ASSUME IInv, SendData
    PROVE  IInv'
<1>0. PICK len \in Sizes :
          daemon' = [daemon EXCEPT !.data = Append(@, Message("data", daemon.served, daemon.sent + 1, len)),
                                   !.sent = @ + 1]
    BY DEF SendData
<1> DEFINE m == Message("data", daemon.served, daemon.sent + 1, len)
           more == Append(daemon.data, m)
<1>1. /\ daemon \in [cmds : Seq(Nat), acks : Seq(Messages), data : Seq(Messages),
                     served : Nat, sent : Nat, lost : BOOLEAN]
      /\ daemon' = [daemon EXCEPT !.data = more, !.sent = daemon.sent + 1]
      /\ client' = client /\ p' = p
    BY <1>0 DEF IInv, DaemonType, SendData
<1>2. m \in Messages /\ m.kind = "data" /\ m.n = daemon.served
    <2>1. len \in Nat /\ len \in 0..MaxDatagram
        BY <1>0, DatagramSizes
    <2> QED
        BY <1>1, <2>1 DEF Message, Messages, Kinds
<1> HIDE DEF m
<1>3. /\ more \in Seq(Messages) /\ more # <<>>
      /\ \A i \in DOMAIN more : more[i] = m \/ \E k \in DOMAIN daemon.data : more[i] = daemon.data[k]
    <2>1. PICK l \in Nat : Len(daemon.data) = l /\ DOMAIN daemon.data = 1..l
        BY <1>1, LenProperties
    <2>2. /\ more \in Seq(Messages) /\ Len(more) = l + 1
          /\ \A i \in 1..l : more[i] = daemon.data[i]
          /\ more[l + 1] = m
        BY <1>1, <1>2, <2>1, AppendProperties
    <2> HIDE DEF more
    <2>3. DOMAIN more = 1..(l + 1) /\ more # <<>>
        BY <2>2, LenProperties
    <2> QED
        BY <2>1, <2>2, <2>3
<1> HIDE DEF more
<1>4. /\ daemon'.cmds = daemon.cmds /\ daemon'.acks = daemon.acks /\ daemon'.data = more
      /\ daemon'.served = daemon.served
    BY <1>1
<1>5. DaemonType'
    <2>1. daemon.sent + 1 \in Nat
        BY <1>1
    <2> QED
        BY <1>1, <1>3, <2>1 DEF DaemonType
<1>6. FromDaemon'
    BY <1>1, <1>2, <1>3, <1>4 DEF IInv, FromDaemon
<1>7. Numbers' /\ Turns'
    BY <1>1, <1>3, <1>4 DEF IInv, Numbers, FramesRead, Turns
<1>8. Stream'
    BY <1>1, <1>4, StreamGoesOn
<1> QED
    BY <1>1, <1>5, <1>6, <1>7, <1>8 DEF IInv, ClientType, ProcessType

-----------------------------------------------------------------------------
(* The proxy. *)

LEMMA PollStep ==
    ASSUME IInv, Poll
    PROVE  IInv' /\ Out(p') = Out(p)
<1>1. p' = [p EXCEPT !.events = Ready] /\ client' = client /\ daemon' = daemon
    BY DEF Poll
<1>2. Ready \in SUBSET Events
    BY DEF Ready, Events
<1>3. ProcessType' /\ Out(p') = Out(p)
    BY <1>1, <1>2 DEF IInv, ProcessType, Processes, Fits, Out
<1>4. /\ Ready \cap {"pending", "data", "client"} # {} => p.traffic = "all"
      /\ "pending" \in Ready => p.q # <<>>
      /\ "data" \in Ready => daemon.data # <<>>
      /\ "command" \in Ready => daemon.acks # <<>>
    BY DEF Ready, IInv, ProcessType, Processes
<1>5. Turns'
    BY <1>1, <1>4 DEF IInv, ProcessType, Processes, Turns
<1> QED
    BY <1>1, <1>3, <1>5, Quietly

LEMMA ExitStep ==
    ASSUME IInv, Exit
    PROVE  IInv' /\ Out(p') = Out(p)
<1>1. p' = [p EXCEPT !.state = "exited"] /\ client' = client /\ daemon' = daemon
    BY DEF Exit
<1>2. ProcessType' /\ Out(p') = Out(p)
    BY <1>1 DEF IInv, ProcessType, Processes, Fits, Out
<1>3. Turns'
    BY <1>1 DEF IInv, ProcessType, Processes, Turns
<1> QED
    BY <1>1, <1>2, <1>3, Quietly

LEMMA SendPendingStep ==
    ASSUME IInv, SendPendingPackets
    PROVE  IInv' /\ Out(p') = Out(p)
<1> DEFINE b == Head(p.q)
           k == Taken(p, b.units)
           n == Len(b.units)
           a == SubSeq(b.units, 1, k)
           rest == SubSeq(b.units, k + 1, n)
           left == IF rest = <<>> THEN <<>> ELSE <<[b EXCEPT !.units = rest]>>
           tail == Tail(p.q)
           w == p.wire
           ev == IF rest # <<>> \/ tail = <<>> THEN p.events \ {"pending"} ELSE p.events
<1>1. /\ p \in Processes /\ Fits(p) /\ w \in Seq(UnitsOf) /\ p.q \in Seq(Buffers) /\ p.q # <<>>
      /\ p.events \in SUBSET Events /\ "pending" \in p.events /\ p.traffic = "all"
      /\ client' = client /\ daemon' = daemon
    BY DEF IInv, ProcessType, Processes, Turns, SendPendingPackets, Handling
<1>2. CASE client.conn = "reset"
    <2>1. p' = [p EXCEPT !.done = TRUE, !.events = {}]
        BY <1>2 DEF SendPendingPackets
    <2>2. ProcessType' /\ Out(p') = Out(p)
        BY <1>1, <2>1 DEF ProcessType, Processes, Fits, Out
    <2>3. Turns'
        BY <1>1, <2>1 DEF IInv, Processes, Turns
    <2> QED
        BY <1>1, <2>2, <2>3, Quietly
<1>3. CASE client.conn # "reset"
    <2>1. p' = [p EXCEPT !.wire = w \o a, !.q = left \o tail, !.events = ev]
        BY <1>3 DEF SendPendingPackets
    <2>2. /\ b \in Buffers /\ b.len \in 0..BufSize /\ b.units \in Seq(UnitsOf)
          /\ tail \in Seq(Buffers) /\ p.q = <<b>> \o tail
        <3>1. b \in Buffers /\ tail \in Seq(Buffers) /\ p.q = <<b>> \o tail
            BY <1>1, HeadThenTail, Zenon
        <3> HIDE DEF b, tail
        <3> QED
            BY <3>1 DEF Buffers
    <2>3. k \in 0..n /\ Len(w) + k <= Window
        BY <1>1, <2>2, TakenFits
    <2>4. /\ a \in Seq(UnitsOf) /\ Len(a) = k /\ rest \in Seq(UnitsOf)
          /\ b.units = a \o rest
        <3> DEFINE u == b.units
        <3> HIDE DEF b, k
        <3>1. u \in Seq(UnitsOf) /\ k \in 0..Len(u)
            BY <2>2, <2>3
        <3> HIDE DEF u
        <3>2. u \in Seq(UnitsOf)
            BY <3>1
        <3>3. \A i \in 0..Len(u) : /\ SubSeq(u, 1, i) \in Seq(UnitsOf)
                                   /\ SubSeq(u, i + 1, Len(u)) \in Seq(UnitsOf)
                                   /\ u = SubSeq(u, 1, i) \o SubSeq(u, i + 1, Len(u))
            BY <3>2, Parts
        <3>4. \A i \in 0..Len(u) : Len(SubSeq(u, 1, i)) = i
            BY <3>2
        <3> QED
            BY <3>1, <3>3, <3>4, Zenon DEF u
    <2> DEFINE f == Flow(tail)
    <2>5. f \in Seq(UnitsOf)
        BY <2>2, FlowType
    <2> HIDE DEF b, tail, k, a, rest, f
    <2>6. left \in Seq(Buffers) /\ Flow(left) = rest
        <3>1. CASE rest = <<>>
            BY <3>1, FlowEmpty, EmptySeq
        <3>2. CASE rest # <<>>
            <4> DEFINE c == [b EXCEPT !.units = rest]
            <4>1. c \in Buffers /\ c.units = rest
                BY <2>2, <2>4 DEF Buffers
            <4> HIDE DEF c
            <4>2. left = <<c>>
                BY <3>2 DEF c
            <4>3. <<c>> \in Seq(Buffers) /\ Flow(<<c>>) = c.units
                BY <4>1, FlowOne
            <4> QED
                BY <4>1, <4>2, <4>3
        <3> QED
            BY <3>1, <3>2
    <2>7. ev \in SUBSET Events /\ ev \subseteq p.events
        BY <1>1
    <2>8. "pending" \in ev => tail # <<>>
        BY <1>1
    <2>9. w \o a \in Seq(UnitsOf) /\ Len(w \o a) <= Window
        <3>1. w \o a \in Seq(UnitsOf) /\ Len(w \o a) = Len(w) + Len(a)
            BY <1>1, <2>4, ConcatProperties
        <3> QED
            BY <2>3, <2>4, <3>1
    <2> HIDE DEF left, ev
    <2>10. left \o tail \in Seq(Buffers) /\ (tail # <<>> => left \o tail # <<>>)
        <3>1. left \o tail \in Seq(Buffers) /\ Len(left \o tail) = Len(left) + Len(tail)
            BY <2>2, <2>6, ConcatProperties
        <3>2. tail # <<>> => Len(tail) > 0
            BY <2>2
        <3> QED
            BY <2>2, <2>6, <3>1, <3>2
    <2>11. Flow(left \o tail) = rest \o f
        BY <2>2, <2>6, FlowConcat DEF f
    <2>12. Flow(p.q) = (a \o rest) \o f
        <3>1. <<b>> \in Seq(Buffers) /\ Flow(<<b>>) = a \o rest
            BY <2>2, <2>4, FlowOne
        <3>2. Flow(<<b>> \o tail) = Flow(<<b>>) \o Flow(tail)
            BY <2>2, <3>1, FlowConcat
        <3> QED
            BY <2>2, <3>1, <3>2, Zenon DEF f
    <2>13. (w \o a) \o (rest \o f) = w \o ((a \o rest) \o f)
        <3> HIDE DEF w
        <3>1. (a \o rest) \o f = a \o (rest \o f)
            BY <2>4, <2>5, ConcatAssociative, SMTT(20)
        <3> DEFINE x == rest \o f
        <3>2. x \in Seq(UnitsOf)
            BY <2>4, <2>5, ConcatProperties
        <3> HIDE DEF x
        <3>3. (w \o a) \o x = w \o (a \o x)
            BY <1>1, <2>4, <3>2, ConcatAssociative, SMTT(20)
        <3> QED
            BY <3>1, <3>3, Zenon DEF x
    <2>14. /\ ProcessType' /\ p'.payload = p.payload
           /\ p'.wire = w \o a /\ p'.q = left \o tail /\ p'.events = ev
           /\ p'.traffic = p.traffic /\ p'.handler = p.handler /\ p'.state = p.state
        BY <1>1, <2>1, <2>7, <2>9, <2>10 DEF ProcessType, Processes, Fits
    <2>15. Out(p') = Out(p)
        BY <2>11, <2>12, <2>13, <2>14, Zenon DEF Out
    <2>16. Turns'
        BY <1>1, <2>7, <2>8, <2>10, <2>14 DEF IInv, Turns
    <2> QED
        BY <1>1, <2>14, <2>15, <2>16, Quietly
<1> QED
    BY <1>2, <1>3

LEMMA DataStep ==
    ASSUME IInv, HandleDataSocket
    PROVE  IInv' /\ Sends(Head(daemon.data))
<1> DEFINE s == Handled("data")
           m == Head(daemon.data)
           more == Tail(daemon.data)
<1>1. /\ p \in Processes /\ Fits(p)
      /\ daemon \in [cmds : Seq(Nat), acks : Seq(Messages), data : Seq(Messages),
                     served : Nat, sent : Nat, lost : BOOLEAN]
      /\ "data" \in p.events /\ daemon.data # <<>> /\ p.traffic = "all"
      /\ daemon.acks = <<>>
    BY DEF IInv, ProcessType, Processes, DaemonType, Turns, HandleDataSocket, Handling
<1>2. /\ s \in Processes /\ Fits(s) /\ Out(s) = Out(p)
      /\ s.state = p.state /\ s.handler = p.handler /\ s.traffic = p.traffic /\ s.payload = p.payload
      /\ s.q = p.q /\ s.events = p.events \ {"data"}
    BY <1>1 DEF Handled, Processes, Fits, Out, Events
<1>3. p' = SendOrEnd(s, Units(m)) /\ daemon' = [daemon EXCEPT !.data = more] /\ client' = client
    BY DEF HandleDataSocket
<1>4. /\ m \in Messages /\ m = daemon.data[1] /\ more \in Seq(Messages) /\ 1 \in DOMAIN daemon.data
      /\ \A i \in DOMAIN more : i + 1 \in DOMAIN daemon.data /\ more[i] = daemon.data[i + 1]
    BY <1>1
<1> HIDE DEF s, m, more
<1>5. Tells(s, p', m)
    BY <1>2, <1>3, <1>4, SendOrEndTells
<1>6. /\ daemon'.cmds = daemon.cmds /\ daemon'.acks = daemon.acks /\ daemon'.data = more
      /\ daemon'.served = daemon.served /\ DaemonType'
    BY <1>1, <1>3, <1>4 DEF DaemonType
<1>7. FromDaemon'
    BY <1>4, <1>6 DEF IInv, FromDaemon
<1>8. ProcessType'
    BY <1>5 DEF Tells, ProcessType
<1>9. Turns'
    BY <1>2, <1>5, <1>6 DEF IInv, Turns, Tells, Same
<1>10. Numbers'
    BY <1>2, <1>3, <1>5, <1>6 DEF IInv, Numbers, FramesRead, Tells, Same
<1>11. Stream'
    <2>1. m.kind = "data" /\ m.n <= daemon.served
        BY <1>4 DEF IInv, FromDaemon
    <2>2. DOMAIN daemon'.acks = {}
        BY <1>1, <1>6
    <2>3. Out(p') = Out(p) \o Units(m) \/ Out(p') = Out(p)
        BY <1>2, <1>5 DEF Tells
    <2> QED
        BY <1>4, <1>6, <2>1, <2>2, <2>3, StreamTakes
<1>12. Sends(m)
    BY <1>2, <1>5 DEF Tells, Sends
<1> QED
    BY <1>3, <1>6, <1>7, <1>8, <1>9, <1>10, <1>11, <1>12 DEF IInv, ClientType, m

LEMMA CommandStep ==
    ASSUME IInv, HandleCommandSocket
    PROVE  IInv' /\ Sends(Head(daemon.acks))
<1> DEFINE s == [Handled("command") EXCEPT !.traffic = "all"]
           m == Head(daemon.acks)
<1>1. /\ p \in Processes /\ Fits(p)
      /\ daemon \in [cmds : Seq(Nat), acks : Seq(Messages), data : Seq(Messages),
                     served : Nat, sent : Nat, lost : BOOLEAN]
      /\ daemon.acks # <<>> /\ Len(daemon.acks) <= 1 /\ daemon.cmds = <<>>
    BY DEF IInv, ProcessType, DaemonType, Turns, HandleCommandSocket, Handling
<1>2. /\ s \in Processes /\ Fits(s) /\ Out(s) = Out(p)
      /\ s.state = p.state /\ s.handler = p.handler /\ s.traffic = "all" /\ s.payload = p.payload
      /\ s.q = p.q /\ s.events = p.events \ {"command"}
    BY <1>1 DEF Handled, Processes, Fits, Out, Events
<1>3. p' = SendOrEnd(s, Units(m)) /\ daemon' = [daemon EXCEPT !.acks = Tail(daemon.acks)] /\ client' = client
    BY DEF HandleCommandSocket
<1>4. /\ m \in Messages /\ m = daemon.acks[1] /\ 1 \in DOMAIN daemon.acks /\ Tail(daemon.acks) = <<>>
    BY <1>1
<1> HIDE DEF s, m
<1>5. Tells(s, p', m)
    BY <1>2, <1>3, <1>4, SendOrEndTells
<1>6. /\ daemon'.cmds = daemon.cmds /\ daemon'.acks = <<>> /\ daemon'.data = daemon.data
      /\ daemon'.served = daemon.served /\ DaemonType'
    <2>1. <<>> \in Seq(Messages)
        OBVIOUS
    <2> QED
        BY <1>1, <1>3, <1>4, <2>1 DEF DaemonType
<1>7. FromDaemon'
    BY <1>6 DEF IInv, FromDaemon
<1>8. ProcessType'
    BY <1>5 DEF Tells, ProcessType
<1>9. Turns'
    <2>1. p'.traffic = "all" /\ p'.events = p.events \ {"command"} /\ (p.q # <<>> => p'.q # <<>>)
          /\ p'.state = p.state /\ p'.handler = p.handler /\ p'.payload = p.payload
        BY <1>2, <1>5 DEF Tells, Same
    <2> QED
        BY <1>1, <1>6, <2>1 DEF IInv, Turns
<1>10. Numbers'
    BY <1>2, <1>3, <1>5, <1>6 DEF IInv, Numbers, FramesRead, Tells, Same
<1>11. Stream'
    <2>1. m.kind = "ack" /\ \E j \in DOMAIN daemon.acks : daemon.acks[j] = m
        BY <1>4 DEF IInv, FromDaemon
    <2>2. DOMAIN daemon'.acks = {}
        BY <1>6
    <2>3. Out(p') = Out(p) \o Units(m) \/ Out(p') = Out(p)
        BY <1>2, <1>5 DEF Tells
    <2> QED
        BY <1>4, <1>6, <2>1, <2>2, <2>3, StreamTakes
<1>12. Sends(m)
    BY <1>2, <1>5 DEF Tells, Sends
<1> QED
    BY <1>3, <1>6, <1>7, <1>8, <1>9, <1>10, <1>11, <1>12 DEF IInv, ClientType, m

LEMMA ClientEndsStep ==
    ASSUME IInv, ClientSocketEnds
    PROVE  IInv' /\ Out(p') = Out(p)
<1>1. p' = [p EXCEPT !.events = p.events \ {"client"}, !.done = TRUE] /\ client' = client /\ daemon' = daemon
    BY DEF ClientSocketEnds, Handled
<1>2. ProcessType' /\ Out(p') = Out(p)
    BY <1>1 DEF IInv, ProcessType, Processes, Fits, Out
<1>3. Turns'
    BY <1>1 DEF IInv, ProcessType, Processes, Turns
<1> QED
    BY <1>1, <1>2, <1>3, Quietly

(* The proxy sends something of its own accord. *)
LEMMA SaysStep ==
    ASSUME IInv, NEW m \in Messages, m.kind \notin {"ack", "data"}, Tells(p, p', m),
           client' = client, daemon' = daemon
    PROVE  IInv'
<1>1. ProcessType'
    BY DEF Tells, ProcessType
<1>2. ClientType' /\ DaemonType' /\ FromDaemon'
    BY DEF IInv, ClientType, DaemonType, FromDaemon
<1>3. Turns' /\ Numbers'
    BY DEF IInv, Turns, Numbers, FramesRead, Tells, Same
<1>4. Stream'
    <2>1. Out(p') = Out(p) \o Units(m) \/ Out(p') = Out(p)
        BY DEF Tells
    <2> QED
        BY <2>1, StreamTakes
<1> QED
    BY <1>1, <1>2, <1>3, <1>4 DEF IInv

LEMMA PingStep ==
    ASSUME IInv, HandleClientPing
    PROVE  IInv' /\ (Out(p') = Out(p) \/ \E m \in Messages : Sends(m))
<1> DEFINE m == Message("ping", 0, 0, 0)
<1>1. m \in Messages /\ m.kind = "ping"
    BY DEF Message, Messages, Kinds
<1> HIDE DEF m
<1>2. p' = SendOrEnd(p, Units(m)) /\ client' = client /\ daemon' = daemon
    BY DEF HandleClientPing, m
<1>3. Tells(p, p', m)
    BY <1>1, <1>2, SendOrEndTells DEF IInv, ProcessType
<1> QED
    BY <1>1, <1>2, <1>3, SaysStep DEF Tells, Sends

LEMMA ShutdownStep ==
    ASSUME IInv, HandleShutdown
    PROVE  IInv' /\ (Out(p') = Out(p) \/ \E m \in Messages : Sends(m))
<1> DEFINE m == Message("close", 0, 0, 0)
           s == SendAnyway(p, Units(m))
<1>1. m \in Messages /\ m.kind = "close"
    BY DEF Message, Messages, Kinds
<1> HIDE DEF m
<1>2. p \in Processes /\ Fits(p) /\ client' = client /\ daemon' = daemon
    BY DEF IInv, ProcessType, HandleShutdown
<1>3. CASE p.handler = "ws"
    <2>1. p' = [s EXCEPT !.done = TRUE]
        BY <1>3 DEF HandleShutdown, m
    <2>2. Tells(p, s, m)
        BY <1>1, <1>2, SendAnywayTells
    <2> HIDE DEF s
    <2>3. Tells(p, p', m)
        BY <2>1, <2>2, OnlyDone DEF Tells, Same
    <2> QED
        BY <1>1, <1>2, <2>3, SaysStep DEF Tells, Sends
<1>4. CASE p.handler # "ws"
    <2>1. p' = [p EXCEPT !.done = TRUE]
        BY <1>4 DEF HandleShutdown
    <2>2. ProcessType' /\ Out(p') = Out(p)
        BY <1>2, <2>1 DEF ProcessType, Processes, Fits, Out
    <2>3. Turns'
        BY <1>2, <2>1 DEF IInv, Processes, Turns
    <2> QED
        BY <1>2, <2>2, <2>3, Quietly
<1> QED
    BY <1>3, <1>4

-----------------------------------------------------------------------------
(* A frame from the client. *)

(* The client's socket is looked at last. *)
LEMMA ClientIsLast ==
    ASSUME Handling("client")
    PROVE  "client" \in p.events /\ "pending" \notin p.events /\ "data" \notin p.events
<1>1. PICK i \in DOMAIN Order : /\ Order[i] = "client" /\ "client" \in p.events
                                /\ \A j \in 1..(i - 1) : Order[j] \notin p.events
    BY DEF Handling
<1>2. i = 3
    BY <1>1 DEF Order
<1>3. 1 \in 1..(i - 1) /\ 2 \in 1..(i - 1) /\ Order[1] = "pending" /\ Order[2] = "data"
    BY <1>2 DEF Order
<1> QED
    BY <1>1, <1>3

LEMMA NextFrame ==
    ASSUME IInv, Complete, client' = [client EXCEPT !.up = Tail(@)]
    PROVE  /\ Head(client.up) \in ClientFrames /\ ClientType'
           /\ FramesRead' = FramesRead + 1 /\ FramesRead \in Int
           /\ Len(client'.up) <= client'.frames
<1>1. /\ client \in [up : Seq(ClientFrames), half : BOOLEAN, conn : {"open", "eof", "reset"}, frames : Nat]
      /\ client.up \in Seq(ClientFrames) /\ client.up # <<>> /\ Len(client.up) <= client.frames
    BY DEF IInv, ClientType, Numbers, Complete
<1>2. /\ Head(client.up) \in ClientFrames /\ Tail(client.up) \in Seq(ClientFrames)
      /\ Len(client.up) \in Nat /\ Len(Tail(client.up)) = Len(client.up) - 1
    BY <1>1
<1>3. client'.up = Tail(client.up) /\ client'.frames = client.frames /\ ClientType'
    BY <1>1, <1>2 DEF ClientType
<1> QED
    BY <1>1, <1>2, <1>3 DEF FramesRead

(* However a frame is dealt with, at most one command comes of it. *)
LEMMA FrameDone ==
    ASSUME IInv, Handling("client"), Complete, client' = [client EXCEPT !.up = Tail(@)],
           ProcessType', DaemonType', Stream',
           daemon'.acks = daemon.acks, daemon'.data = daemon.data, daemon'.served = daemon.served,
           daemon'.cmds = <<>> \/ (p'.traffic = "ack" /\ daemon'.cmds = <<FramesRead + 1>>),
           p'.events = p.events \ {"client"}, p.q # <<>> => p'.q # <<>>
    PROVE  IInv'
<1>1. /\ ClientType' /\ FramesRead' = FramesRead + 1 /\ FramesRead \in Int
      /\ Len(client'.up) <= client'.frames
    BY NextFrame
<1>2. /\ "client" \in p.events /\ "pending" \notin p.events /\ "data" \notin p.events
      /\ p.traffic = "all" /\ daemon.cmds = <<>> /\ daemon.acks = <<>>
    BY ClientIsLast DEF IInv, Turns
<1> DEFINE c == <<FramesRead + 1>>
<1>3. Len(c) = 1 /\ DOMAIN c = {1} /\ c[1] = FramesRead + 1
    OBVIOUS
<1> HIDE DEF c
<1>4. daemon'.cmds = <<>> \/ (p'.traffic = "ack" /\ daemon'.cmds = c)
    BY DEF c
<1>5. Turns'
    <2>1. Len(daemon'.cmds) <= 1 /\ (daemon'.cmds # <<>> => p'.traffic = "ack")
        <3>1. CASE daemon'.cmds = <<>>
            <4>1. Len(<<>>) = 0
                OBVIOUS
            <4> QED
                BY <3>1, <4>1
        <3>2. CASE p'.traffic = "ack" /\ daemon'.cmds = c
            <4>1. Len(daemon'.cmds) = 1
                BY <1>3, <3>2, Zenon
            <4> QED
                BY <3>2, <4>1
        <3> QED
            BY <1>4, <3>1, <3>2
    <2>2. daemon'.acks = <<>> /\ Len(daemon'.acks) <= 1
        BY <1>2
    <2>3. p'.events \cap {"pending", "data", "client"} = {}
        BY <1>2
    <2>4. "command" \in p'.events => daemon'.acks # <<>>
        BY <1>2 DEF IInv, Turns
    <2> QED
        BY <2>1, <2>2, <2>3, <2>4 DEF Turns
<1>6. Numbers'
    <2>1. daemon.served \in Nat /\ daemon.served <= FramesRead
        BY DEF IInv, DaemonType, Numbers
    <2>2. \A i \in DOMAIN daemon'.cmds : daemon'.served < daemon'.cmds[i] /\ daemon'.cmds[i] <= FramesRead'
        BY <1>1, <1>3, <1>4, <2>1
    <2> QED
        BY <1>1, <2>1, <2>2 DEF Numbers
<1>7. FromDaemon'
    BY DEF IInv, FromDaemon
<1> QED
    BY <1>1, <1>5, <1>6, <1>7 DEF IInv

(* A frame that completes a command, or none. *)
LEMMA CommandTaken ==
    ASSUME IInv, Handling("client"),
           NEW payload, NEW s \in Processes, Fits(s), Out(s) = Out(p), s.q = p.q,
           s.events = p.events \ {"client"}, HandleAcnetCommand(s, payload)
    PROVE  /\ ProcessType' /\ DaemonType' /\ Stream'
           /\ daemon'.acks = daemon.acks /\ daemon'.data = daemon.data /\ daemon'.served = daemon.served
           /\ daemon'.cmds = <<>> \/ (p'.traffic = "ack" /\ daemon'.cmds = <<FramesRead + 1>>)
           /\ p'.events = p.events \ {"client"} /\ (p.q # <<>> => p'.q # <<>>)
           /\ Out(p') = Out(p)
<1> DEFINE n == FramesRead + 1
<1>1. /\ daemon \in [cmds : Seq(Nat), acks : Seq(Messages), data : Seq(Messages),
                     served : Nat, sent : Nat, lost : BOOLEAN]
      /\ daemon.cmds = <<>>
    <2>1. p.traffic = "all"
        BY ClientIsLast DEF IInv, Turns
    <2> QED
        BY <2>1 DEF IInv, DaemonType, Turns
<1>2. n \in Nat
    BY <1>1 DEF IInv, ClientType, Numbers, FramesRead
<1> HIDE DEF n
<1>3. \/ /\ p' = [s EXCEPT !.done = TRUE] \/ p' = [s EXCEPT !.traffic = "ack", !.done = FALSE]
         /\ daemon' = daemon \/ daemon' = [daemon EXCEPT !.lost = TRUE]
      \/ /\ p' = [s EXCEPT !.traffic = "ack", !.done = FALSE]
         /\ daemon' = [daemon EXCEPT !.cmds = Append(daemon.cmds, n)]
    BY DEF HandleAcnetCommand, HandleClientCommand, n
<1>4. ProcessType' /\ Out(p') = Out(s) /\ p'.events = s.events /\ p'.q = s.q
    <2>1. p' = [s EXCEPT !.done = TRUE] \/ p' = [s EXCEPT !.traffic = "ack", !.done = FALSE]
        BY <1>3
    <2> QED
        BY <2>1 DEF ProcessType, Processes, Fits, Out
<1>5. /\ DaemonType' /\ daemon'.acks = daemon.acks /\ daemon'.data = daemon.data
      /\ daemon'.served = daemon.served
      /\ daemon'.cmds = <<>> \/ (p'.traffic = "ack" /\ daemon'.cmds = <<n>>)
    <2>1. CASE daemon' = daemon \/ daemon' = [daemon EXCEPT !.lost = TRUE]
        BY <1>1, <2>1 DEF DaemonType
    <2>2. CASE /\ p' = [s EXCEPT !.traffic = "ack", !.done = FALSE]
               /\ daemon' = [daemon EXCEPT !.cmds = Append(daemon.cmds, n)]
        <3> DEFINE c == <<n>>
        <3>1. Append(daemon.cmds, n) = c /\ c \in Seq(Nat)
            BY <1>1, <1>2
        <3> HIDE DEF c
        <3>2. daemon' = [daemon EXCEPT !.cmds = c]
            BY <2>2, <3>1
        <3>3. p'.traffic = "ack"
            BY <2>2 DEF Processes
        <3>4. /\ DaemonType' /\ daemon'.acks = daemon.acks /\ daemon'.data = daemon.data
              /\ daemon'.served = daemon.served /\ daemon'.cmds = c
            BY <1>1, <3>1, <3>2 DEF DaemonType
        <3> QED
            BY <3>3, <3>4 DEF c
    <2> QED
        BY <1>3, <2>1, <2>2
<1>6. Stream'
    BY <1>1, <1>4, <1>5, StreamGoesOn
<1> QED
    BY <1>4, <1>5, <1>6 DEF n

(* A frame that the proxy answers itself, or does not. *)
LEMMA ReplyGiven ==
    ASSUME IInv, Handling("client"),
           NEW s \in Processes, s.q = p.q, s.events = p.events \ {"client"}, Out(s) = Out(p),
           NEW m \in Messages, m.kind \notin {"ack", "data"}, NEW t, Tells(s, t, m) \/ t = s, Fits(s),
           NEW done \in BOOLEAN, p' = [t EXCEPT !.done = done], daemon' = daemon
    PROVE  /\ ProcessType' /\ DaemonType' /\ Stream' /\ daemon'.cmds = <<>>
           /\ p'.events = p.events \ {"client"} /\ (p.q # <<>> => p'.q # <<>>)
           /\ Out(p') = Out(p) \/ Out(p') = Out(p) \o Units(m)
<1>1. /\ t \in Processes /\ Fits(t) /\ Same(s, t)
      /\ Out(t) = Out(p) \/ Out(t) = Out(p) \o Units(m)
    BY DEF Tells, Same
<1>2. ProcessType' /\ Out(p') = Out(t) /\ p'.events = t.events /\ p'.q = t.q
    BY <1>1 DEF ProcessType, Processes, Fits, Out
<1>3. DaemonType' /\ daemon.cmds = <<>>
    <2>1. p.traffic = "all"
        BY ClientIsLast DEF IInv, Turns
    <2> QED
        BY <2>1 DEF IInv, DaemonType, Turns
<1>4. Out(p') = Out(p) \/ Out(p') = Out(p) \o Units(m)
    BY <1>1, <1>2
<1>5. Stream'
    BY <1>4, StreamTakes
<1>6. p'.events = p.events \ {"client"} /\ (p.q # <<>> => p'.q # <<>>)
    BY <1>1, <1>2 DEF Same
<1> QED
    BY <1>2, <1>3, <1>4, <1>5, <1>6

LEMMA ClientFrame ==
    ASSUME IInv, HandleClientSocket
    PROVE  /\ IInv' /\ Complete /\ client' = [client EXCEPT !.up = Tail(@)]
           /\ daemon.cmds = <<>> /\ daemon.acks = <<>>
           /\ daemon'.acks = daemon.acks /\ daemon'.data = daemon.data
           /\ daemon'.cmds = <<>> \/ (daemon'.cmds = <<FramesRead + 1>> /\ Out(p') = Out(p))
           /\ Out(p') = Out(p) \/ \E m \in Messages : Out(p') = Out(p) \o Units(m)
<1> DEFINE f == Head(client.up)
           h == Handled("client")
           payload == p.payload \o f.body
           len == p.len + f.len
           s == [h EXCEPT !.payload = IF f.fin THEN <<>> ELSE payload, !.len = IF f.fin THEN 0 ELSE len]
<1>1. /\ Handling("client") /\ Complete /\ client' = [client EXCEPT !.up = Tail(@)]
      /\ IF p.handler = "raw" THEN RawFrame(f) ELSE WebSocketFrame(f)
    BY DEF HandleClientSocket
<1>2. /\ f \in ClientFrames /\ f.body \in Seq(STRING) /\ p.payload \in Seq(STRING)
      /\ payload \in Seq(STRING) /\ len \in Nat
    <2>1. f \in ClientFrames
        BY <1>1, NextFrame
    <2> HIDE DEF f
    <2>2. f.body \in Seq(STRING) /\ p.payload \in Seq(STRING) /\ len \in Nat
        BY <2>1 DEF ClientFrames, IInv, ProcessType, Processes
    <2> QED
        BY <2>1, <2>2, ConcatProperties
<1>3. /\ h \in Processes /\ Fits(h) /\ Out(h) = Out(p) /\ h.q = p.q /\ h.events = p.events \ {"client"}
    BY DEF IInv, ProcessType, Handled, Processes, Fits, Out, Events
<1>4. daemon.cmds = <<>> /\ daemon.acks = <<>>
    <2>1. p.traffic = "all"
        BY <1>1, ClientIsLast DEF IInv, Turns
    <2> QED
        BY <2>1 DEF IInv, Turns
<1> DEFINE Goes(t, done) == p' = [t EXCEPT !.done = done] /\ daemon' = daemon
<1>5. \/ HandleAcnetCommand(h, f.body) \/ HandleAcnetCommand(s, payload)
      \/ \E done \in BOOLEAN : Goes(s, done)
      \/ \E kind \in {"close", "pong"}, done \in BOOLEAN : Goes(Answered(s, kind, len), done)
    BY <1>1 DEF RawFrame, WebSocketFrame
<1> HIDE DEF f, h, payload, len
<1>6. /\ s \in Processes /\ Fits(s) /\ Out(s) = Out(p) /\ s.q = p.q /\ s.events = p.events \ {"client"}
    <2>1. (IF f.fin THEN <<>> ELSE payload) \in Seq(STRING) /\ (IF f.fin THEN 0 ELSE len) \in Nat
        <3>1. <<>> \in Seq(STRING)
            BY EmptySeq
        <3> QED
            BY <1>2, <3>1
    <2> QED
        BY <1>3, <2>1 DEF Processes, Fits, Out
<1> HIDE DEF s
<1>7. CASE HandleAcnetCommand(h, f.body) \/ HandleAcnetCommand(s, payload)
    <2>1. /\ ProcessType' /\ DaemonType' /\ Stream'
          /\ daemon'.acks = daemon.acks /\ daemon'.data = daemon.data /\ daemon'.served = daemon.served
          /\ daemon'.cmds = <<>> \/ (p'.traffic = "ack" /\ daemon'.cmds = <<FramesRead + 1>>)
          /\ p'.events = p.events \ {"client"} /\ (p.q # <<>> => p'.q # <<>>)
          /\ Out(p') = Out(p)
        BY <1>1, <1>3, <1>6, <1>7, CommandTaken
    <2>2. IInv'
        BY <1>1, <2>1, FrameDone
    <2> QED
        BY <1>1, <1>4, <2>1, <2>2
<1>8. ASSUME NEW m \in Messages, m.kind \notin {"ack", "data"}, NEW t, Tells(s, t, m) \/ t = s,
             NEW done \in BOOLEAN, Goes(t, done)
      PROVE  /\ IInv' /\ daemon' = daemon
             /\ Out(p') = Out(p) \/ Out(p') = Out(p) \o Units(m)
    <2>1. /\ ProcessType' /\ DaemonType' /\ Stream' /\ daemon'.cmds = <<>>
          /\ p'.events = p.events \ {"client"} /\ (p.q # <<>> => p'.q # <<>>)
          /\ Out(p') = Out(p) \/ Out(p') = Out(p) \o Units(m)
        BY <1>1, <1>6, <1>8, ReplyGiven
    <2>2. IInv'
        BY <1>1, <1>8, <2>1, FrameDone
    <2> QED
        BY <1>8, <2>1, <2>2
<1>9. CASE \E done \in BOOLEAN : Goes(s, done)
    <2>1. PICK done \in BOOLEAN : Goes(s, done)
        BY <1>9
    <2> DEFINE m == Message("ping", 0, 0, 0)
    <2>2. m \in Messages /\ m.kind \notin {"ack", "data"}
        BY DEF Message, Messages, Kinds
    <2> HIDE DEF m, Goes
    <2>3. /\ IInv' /\ daemon' = daemon
          /\ Out(p') = Out(p) \/ Out(p') = Out(p) \o Units(m)
        BY <1>8, <2>1, <2>2
    <2> QED
        BY <1>1, <1>4, <2>2, <2>3
<1>10. CASE \E kind \in {"close", "pong"}, done \in BOOLEAN : Goes(Answered(s, kind, len), done)
    <2>1. PICK kind \in {"close", "pong"}, done \in BOOLEAN : Goes(Answered(s, kind, len), done)
        BY <1>10
    <2>2. client.frames \in Nat /\ kind \in Kinds \ {"ack", "data"}
        BY DEF IInv, ClientType, Kinds
    <2>3. PICK m \in Messages : m.kind = kind /\ Tells(s, Answered(s, kind, len), m)
        BY <1>2, <1>6, <2>2, AnsweredTells
    <2> DEFINE t == Answered(s, kind, len)
    <2>4. Tells(s, t, m) /\ m.kind \notin {"ack", "data"} /\ Goes(t, done)
        BY <2>1, <2>3
    <2> HIDE DEF Goes, t
    <2>5. /\ IInv' /\ daemon' = daemon
          /\ Out(p') = Out(p) \/ Out(p') = Out(p) \o Units(m)
        BY <1>8, <2>4
    <2> QED
        BY <1>1, <1>4, <2>5
<1> QED
    BY <1>5, <1>7, <1>9, <1>10

-----------------------------------------------------------------------------
LEMMA Starts == Init => IInv
<1> SUFFICES ASSUME Init PROVE IInv
    OBVIOUS
<1>1. /\ client = [up |-> <<>>, half |-> FALSE, conn |-> "open", frames |-> 0]
      /\ daemon = [cmds |-> <<>>, acks |-> <<>>, data |-> <<>>, served |-> 0, sent |-> 0, lost |-> FALSE]
      /\ p = [state |-> "handshake", handler |-> "none", traffic |-> "all", events |-> {},
              done |-> FALSE, payload |-> <<>>, len |-> 0, q |-> <<>>, wire |-> <<>>]
    BY DEF Init
<1>2. /\ client.up = <<>> /\ client.frames = 0
      /\ daemon.cmds = <<>> /\ daemon.acks = <<>> /\ daemon.data = <<>> /\ daemon.served = 0
      /\ p.state = "handshake" /\ p.traffic = "all" /\ p.events = {} /\ p.payload = <<>> /\ p.len = 0
      /\ p.q = <<>> /\ p.wire = <<>>
    BY <1>1
<1>3. DOMAIN <<>> = {} /\ Len(<<>>) = 0 /\ \A T : <<>> \in Seq(T)
    OBVIOUS
<1>4. ClientType /\ DaemonType
    BY <1>1, <1>3 DEF ClientType, DaemonType
<1>5. ProcessType
    BY <1>1, <1>3, SizesAssumption DEF ProcessType, Processes, Handlers, Fits
<1>6. Turns
    BY <1>2, <1>3 DEF Turns
<1>7. Numbers /\ FromDaemon
    BY <1>2, <1>3 DEF Numbers, FramesRead, FromDaemon
<1>8. Stream
    <2>1. Out(p) = <<>>
        BY <1>2, FlowEmpty DEF Out
    <2> QED
        BY <1>3, <2>1 DEF Stream, Whole, Behind
<1> QED
    BY <1>4, <1>5, <1>6, <1>7, <1>8 DEF IInv

LEMMA Continues == IInv /\ [Next]_vars => IInv'
<1> SUFFICES ASSUME IInv, [Next]_vars PROVE IInv'
    OBVIOUS
<1>1. ASSUME NEW lines \in Openings, NEW inTime \in BOOLEAN, Handshake(lines, inTime) PROVE IInv'
    BY <1>1, HandshakeStep
<1>2. ASSUME NEW f \in Frames, NEW half \in BOOLEAN, Write(f, half) PROVE IInv'
    BY <1>2, WriteStep
<1>3. CASE WriteRest \/ \E how \in {"eof", "reset"} : Leave(how)
    BY <1>3, ConnectionStep
<1>4. CASE Read
    BY <1>4, ReadStep
<1>5. CASE ServeCommand
    BY <1>5, ServeStep
<1>6. CASE SendData
    BY <1>6, SendDataStep
<1>7. CASE Proxy
    BY <1>7, PollStep, ExitStep, SendPendingStep, DataStep, CommandStep, ClientFrame, ClientEndsStep
       DEF Proxy
<1>8. CASE HandleClientPing
    BY <1>8, PingStep
<1>9. CASE HandleShutdown
    BY <1>9, ShutdownStep
<1>10. CASE UNCHANGED vars
    BY <1>10 DEF vars, IInv, ClientType, DaemonType, ProcessType, Turns, Numbers, FramesRead, FromDaemon, Stream
<1> QED
    BY <1>1, <1>2, <1>3, <1>4, <1>5, <1>6, <1>7, <1>8, <1>9, <1>10, Zenon DEF Next

LEMMA Inductive == Spec => []IInv
BY Starts, Continues, PTL DEF Spec

LEMMA ByteEnough ==
    ASSUME NEW size \in 0..125
    PROVE  InByte(size) = {size}
<1>1. size % 256 = size
    OBVIOUS
<1> QED
    BY <1>1 DEF InByte

LEMMA TwoBytesEnough ==
    ASSUME NEW len \in 0..MaxDatagram
    PROVE  InTwoBytes(len + 2) = {len + 2}
<1> DEFINE x == len + 2
<1>2. x \in Nat /\ x < 65536
    BY DatagramIs
<1> HIDE DEF x
<1>3. x % 65536 = x
    BY <1>2
<1>1. (len + 2) % 65536 = len + 2
    BY <1>3 DEF x
<1> QED
    BY <1>1 DEF InTwoBytes

(***************************************************************************)
(* The header that is written tells the length of what follows, but in the *)
(* frames that `Misread' names (wshandler.cpp:101-123, 210, 219).          *)
(***************************************************************************)
LEMMA LengthOf ==
    ASSUME NEW m \in Messages, ~Misread(m)
    PROVE  Announced(m) = {PayloadOf(m)}
<1>1. m.len \in Nat /\ (m.kind \in {"ack", "data"} => m.len \in 0..MaxDatagram)
    BY DEF Messages
<1>2. CASE p.handler = "raw"
    BY <1>2, Zenon DEF Announced
<1>3. CASE p.handler # "raw" /\ HasType(m)
    <2>1. m.len \notin {124, 125} /\ PayloadOf(m) = m.len + 2
        BY <1>3 DEF Misread, PayloadOf
    <2>2. CASE m.len > 125
        <3>1. m.len \in 0..MaxDatagram
            BY <1>1, <1>3 DEF HasType
        <3>2. InTwoBytes(m.len + 2) = {m.len + 2}
            BY <3>1, TwoBytesEnough
        <3>3. Announced(m) = InTwoBytes(PayloadOf(m))
            BY <1>3, <2>2 DEF Announced
        <3> QED
            BY <2>1, <3>2, <3>3
    <2>3. CASE ~(m.len > 125)
        <3>1. m.len + 2 \in 0..125
            BY <1>1, <2>1, <2>3
        <3>2. InByte(m.len + 2) = {m.len + 2}
            BY <3>1, ByteEnough
        <3>3. Announced(m) = InByte(PayloadOf(m))
            BY <1>3, <2>3 DEF Announced
        <3> QED
            BY <2>1, <3>2, <3>3
    <2> QED
        BY <2>2, <2>3
<1>4. CASE p.handler # "raw" /\ ~HasType(m)
    <2>1. m.len \in 0..125
        BY <1>1, <1>4 DEF Misread
    <2>2. PayloadOf(m) = m.len
        BY <1>4 DEF PayloadOf
    <2>3. InByte(m.len) = {m.len}
        BY <2>1, ByteEnough
    <2>4. Announced(m) = InByte(PayloadOf(m))
        BY <1>4 DEF Announced
    <2> QED
        BY <2>2, <2>3, <2>4
<1> QED
    BY <1>2, <1>3, <1>4

(***************************************************************************)
(* However the socket and the buffers cut them, frames leave for the       *)
(* client whole, and for every size of datagram and of control frame, but  *)
(* those that the code gets wrong, the header tells the client where the   *)
(* next one begins (tcpclient.cpp:358-412, server.h:1497-1518,             *)
(* wshandler.cpp:90-125, 204-221, rawhandler.cpp:40-75).                   *)
(***************************************************************************)
THEOREM FramesAlwaysWhole == Spec => []FramesWhole
<1>1. IInv => FramesWhole
    <2> SUFFICES ASSUME IInv, NEW i \in DOMAIN Out(p)
                 PROVE  /\ Out(p)[i].part = 1 => i + 1 \in DOMAIN Out(p) /\ Out(p)[i + 1] = Unit(Out(p)[i].m, 2)
                        /\ Out(p)[i].part = 2 /\ i > 1 => Out(p)[i - 1] = Unit(Out(p)[i].m, 1)
                        /\ ~Misread(Out(p)[i].m) => Announced(Out(p)[i].m) = {PayloadOf(Out(p)[i].m)}
        BY PendingIsOut, Zenon DEF FramesWhole
    <2>1. Out(p)[i].m \in Messages
        <3> DEFINE o == Out(p)
        <3>1. o \in Seq(UnitsOf)
            BY OutType DEF IInv, ProcessType
        <3> HIDE DEF o
        <3>2. ASSUME NEW j \in DOMAIN o PROVE o[j].m \in Messages
            <4>1. o[j] \in UnitsOf
                BY <3>1
            <4> QED
                BY <4>1 DEF UnitsOf
        <3> QED
            BY <3>2, Zenon DEF o
    <2>2. ~Misread(Out(p)[i].m) => Announced(Out(p)[i].m) = {PayloadOf(Out(p)[i].m)}
        BY <2>1, LengthOf, Zenon
    <2> QED
        BY <2>2, Zenon DEF IInv, Stream, Whole
<1> QED
    BY <1>1, Inductive, PTL

(***************************************************************************)
(* The client reads of a command its acknowledgement before its data,      *)
(* although they come to the proxy through different sockets               *)
(* (tcpclient.cpp:105, 347-351, 480).                                      *)
(***************************************************************************)
THEOREM AckAlwaysFirst == Spec => []AckFirst
<1>1. IInv => AckFirst
    <2> SUFFICES ASSUME IInv, NEW i \in DOMAIN Out(p), Out(p)[i].m.kind = "data"
                 PROVE  /\ \A j \in (i + 1)..Len(Out(p)) :
                               Out(p)[j].m.kind = "ack" => Out(p)[j].m.n > Out(p)[i].m.n
                        /\ \A j \in DOMAIN daemon.acks : daemon.acks[j].n > Out(p)[i].m.n
        BY PendingIsOut, Zenon DEF AckFirst
    <2> QED
        BY Zenon DEF IInv, Stream, Behind
<1> QED
    BY <1>1, Inductive, PTL

-----------------------------------------------------------------------------
(* What the client has still to read, message by message. *)

LEMMA ArrivingMaps ==
    ASSUME NEW s \in Seq(UnitsOf)
    PROVE  Arriving(s) = FlattenSeq(Mapped([u \in UnitsOf |-> IF u.part = 2 THEN <<u.m>> ELSE <<>>], s))
<1>1. \A i \in DOMAIN s : s[i] \in UnitsOf
    OBVIOUS
<1>2. [i \in DOMAIN s |-> IF s[i].part = 2 THEN <<s[i].m>> ELSE <<>>]
        = Mapped([u \in UnitsOf |-> IF u.part = 2 THEN <<u.m>> ELSE <<>>], s)
    BY <1>1 DEF Mapped
<1> QED
    BY <1>2, Zenon DEF Arriving

LEMMA EndsMap ==
    Maps([u \in UnitsOf |-> IF u.part = 2 THEN <<u.m>> ELSE <<>>], UnitsOf, Messages)
<1>1. ASSUME NEW u \in UnitsOf
      PROVE  (IF u.part = 2 THEN <<u.m>> ELSE <<>>) \in Seq(Messages)
    <2>1. <<>> \in Seq(Messages) /\ u.m \in Messages
        BY EmptySeq DEF UnitsOf
    <2> QED
        BY <2>1
<1> QED
    BY <1>1 DEF Maps

LEMMA ArrivingType ==
    ASSUME NEW s \in Seq(UnitsOf)
    PROVE  Arriving(s) \in Seq(Messages)
<1> DEFINE g == [u \in UnitsOf |-> IF u.part = 2 THEN <<u.m>> ELSE <<>>]
<1>1. Maps(g, UnitsOf, Messages)
    BY EndsMap
<1> HIDE DEF g
<1>2. Mapped(g, s) \in Seq(Seq(Messages))
    BY <1>1, MappedType
<1>3. FlattenSeq(Mapped(g, s)) \in Seq(Messages)
    BY <1>2, FlattenType
<1> QED
    BY <1>3, ArrivingMaps DEF g

LEMMA ArrivingConcat ==
    ASSUME NEW a \in Seq(UnitsOf), NEW b \in Seq(UnitsOf)
    PROVE  Arriving(a \o b) = Arriving(a) \o Arriving(b)
<1> DEFINE g == [u \in UnitsOf |-> IF u.part = 2 THEN <<u.m>> ELSE <<>>]
<1>1. Maps(g, UnitsOf, Messages)
    BY EndsMap
<1>2. Arriving(a) = FlattenSeq(Mapped(g, a)) /\ Arriving(b) = FlattenSeq(Mapped(g, b))
    BY ArrivingMaps
<1>3. Arriving(a \o b) = FlattenSeq(Mapped(g, a \o b))
    <2>1. a \o b \in Seq(UnitsOf)
        BY ConcatProperties
    <2> QED
        BY <2>1, ArrivingMaps
<1> HIDE DEF g
<1>4. FlattenSeq(Mapped(g, a \o b)) = FlattenSeq(Mapped(g, a)) \o FlattenSeq(Mapped(g, b))
    BY <1>1, MappedConcat
<1> QED
    BY <1>2, <1>3, <1>4, Zenon

LEMMA ArrivingOne ==
    ASSUME NEW u \in UnitsOf
    PROVE  Arriving(<<u>>) = IF u.part = 2 THEN <<u.m>> ELSE <<>>
<1> DEFINE x == IF u.part = 2 THEN <<u.m>> ELSE <<>>
           f == [i \in DOMAIN <<u>> |-> IF <<u>>[i].part = 2 THEN <<<<u>>[i].m>> ELSE <<>>]
<1>1. f = <<x>>
    OBVIOUS
<1>2. x \in Seq(Messages)
    <2>1. <<>> \in Seq(Messages) /\ u.m \in Messages
        BY EmptySeq DEF UnitsOf
    <2> QED
        BY <2>1
<1>3. Arriving(<<u>>) = FlattenSeq(f)
    BY Zenon DEF Arriving
<1> HIDE DEF x, f
<1>4. FlattenSeq(<<x>>) = x
    BY <1>2, FlattenOne
<1> QED
    BY <1>1, <1>3, <1>4, Zenon DEF x

LEMMA ArrivingFrame ==
    ASSUME NEW m \in Messages
    PROVE  Arriving(Units(m)) = <<m>>
<1> DEFINE x == <<Unit(m, 1)>>
           y == <<Unit(m, 2)>>
<1>1. x \in Seq(UnitsOf) /\ y \in Seq(UnitsOf) /\ Units(m) = x \o y
    BY UnitsType
<1>2. Arriving(x) = <<>> /\ Arriving(y) = <<m>>
    <2>1. Unit(m, 1) \in UnitsOf /\ Unit(m, 2) \in UnitsOf
        BY DEF Unit, UnitsOf
    <2>2. Unit(m, 1).part = 1 /\ Unit(m, 2).part = 2 /\ Unit(m, 2).m = m
        BY DEF Unit
    <2>3. /\ Arriving(<<Unit(m, 1)>>) = IF Unit(m, 1).part = 2 THEN <<Unit(m, 1).m>> ELSE <<>>
          /\ Arriving(<<Unit(m, 2)>>) = IF Unit(m, 2).part = 2 THEN <<Unit(m, 2).m>> ELSE <<>>
        BY <2>1, ArrivingOne
    <2> QED
        BY <2>2, <2>3
<1> HIDE DEF x, y
<1>3. Arriving(x \o y) = Arriving(x) \o Arriving(y)
    BY <1>1, ArrivingConcat
<1>4. <<>> \o <<m>> = <<m>>
    BY ConcatEmptySeq
<1> QED
    BY <1>1, <1>2, <1>3, <1>4, Zenon

(* A unit that is read is a message, or the half of one that is not whole yet. *)
LEMMA ArrivingTail ==
    ASSUME NEW s \in Seq(UnitsOf), s # <<>>
    PROVE  \/ Arriving(Tail(s)) = Arriving(s)
           \/ Arriving(s) # <<>> /\ Arriving(Tail(s)) = Tail(Arriving(s))
<1> DEFINE u == Head(s)
           t == Tail(s)
<1>1. u \in UnitsOf /\ t \in Seq(UnitsOf) /\ s = <<u>> \o t
    BY HeadThenTail
<1> HIDE DEF u, t
<1> DEFINE a == Arriving(t)
           x == <<u>>
<1>2. a \in Seq(Messages)
    BY <1>1, ArrivingType
<1>3. x \in Seq(UnitsOf)
    BY <1>1
<1>4. Arriving(x) = IF u.part = 2 THEN <<u.m>> ELSE <<>>
    BY <1>1, ArrivingOne
<1> HIDE DEF x
<1>5. Arriving(s) = Arriving(x) \o a
    <2>1. Arriving(x \o t) = Arriving(x) \o Arriving(t)
        BY <1>1, <1>3, ArrivingConcat
    <2> QED
        BY <1>1, <2>1, Zenon DEF x
<1> HIDE DEF a
<1>6. CASE u.part = 2
    <2>1. u.m \in Messages
        BY <1>1 DEF UnitsOf
    <2> DEFINE y == <<u.m>>
    <2>2. y \in Seq(Messages) /\ y # <<>> /\ Tail(y) = <<>> /\ Arriving(x) = y
        BY <1>4, <1>6, <2>1
    <2> HIDE DEF y
    <2>3. y \o a # <<>> /\ Tail(y \o a) = <<>> \o a
        <3>1. y \in Seq(Messages) /\ y # <<>>
            BY <2>2
        <3>2. y \o a # <<>> /\ Tail(y \o a) = Tail(y) \o a
            BY <1>2, <3>1, TailConcat
        <3> QED
            BY <2>2, <3>2, Zenon
    <2>4. <<>> \o a = a
        BY <1>2, ConcatEmptySeq
    <2> QED
        BY <1>5, <2>2, <2>3, <2>4, Zenon DEF a, t
<1>7. CASE u.part # 2
    <2>1. <<>> \o a = a
        BY <1>2, ConcatEmptySeq
    <2> QED
        BY <1>4, <1>5, <1>7, <2>1, Zenon DEF a, t
<1> QED
    BY <1>6, <1>7

-----------------------------------------------------------------------------
(* The proxy as a relay: its steps are steps of RelaySpec. *)

Ins == [i \in DOMAIN client.up |-> FramesRead + i]
Outs == Arriving(Pending)
Open == p.state # "exited" /\ client.conn # "reset"

LEMMA OutsAre ==
    Outs = Arriving(Out(p)) /\ Outs' = Arriving(Out(p'))
BY Zenon DEF Outs, Pending, Out, Flow

LEMMA OneMoreIs ==
    ASSUME NEW T, NEW s \in Seq(T), NEW t \in Seq(T), Len(t) = Len(s) + 1,
           \A i \in 1..Len(s) : t[i] = s[i]
    PROVE  Relay!OneMore(s, t)
<1>1. PICK n \in Nat : n = Len(s)
    OBVIOUS
<1>2. n \in 0..Len(t)
    BY <1>1
<1>3. /\ SubSeq(t, 1, n) \in Seq(T) /\ Len(SubSeq(t, 1, n)) = n
      /\ \A i \in 1..n : SubSeq(t, 1, n)[i] = t[i]
    BY <1>2, Parts
<1>4. \A i \in 1..n : SubSeq(t, 1, n)[i] = s[i]
    BY <1>1, <1>3
<1>5. SubSeq(t, 1, n) = s
    BY <1>1, <1>3, <1>4, SeqEqual
<1> QED
    BY <1>1, <1>5 DEF Relay!OneMore

LEMMA AppendIsOneMore ==
    ASSUME NEW T, NEW s \in Seq(T), NEW x \in T
    PROVE  Relay!OneMore(s, Append(s, x)) /\ Relay!OneMore(s, s \o <<x>>)
<1>1. /\ Append(s, x) \in Seq(T) /\ Len(Append(s, x)) = Len(s) + 1
      /\ \A i \in 1..Len(s) : Append(s, x)[i] = s[i]
    BY AppendProperties
<1>2. s \o <<x>> = Append(s, x)
    OBVIOUS
<1>3. Relay!OneMore(s, Append(s, x))
    BY <1>1, OneMoreIs
<1> QED
    BY <1>2, <1>3

(* One more message to the client. *)
LEMMA OutsGrow ==
    ASSUME IInv, NEW m \in Messages, Out(p') = Out(p) \o Units(m)
    PROVE  Outs' = Outs \o <<m>> /\ Outs \in Seq(Messages) /\ Relay!OneMore(Outs, Outs')
<1> DEFINE a == Out(p)
           b == Units(m)
<1>1. a \in Seq(UnitsOf) /\ b \in Seq(UnitsOf)
    BY OutType, UnitsType DEF IInv, ProcessType
<1>2. Arriving(b) = <<m>>
    BY ArrivingFrame
<1> HIDE DEF a, b
<1>3. Arriving(a \o b) = Arriving(a) \o Arriving(b) /\ Arriving(a) \in Seq(Messages)
    BY <1>1, ArrivingConcat, ArrivingType
<1>4. Outs' = Outs \o <<m>> /\ Outs \in Seq(Messages)
    BY <1>2, <1>3, OutsAre, Zenon DEF a, b
<1> QED
    BY <1>4, AppendIsOneMore

(* Frames of the client. *)
Numbered ==
    /\ Len(client.up) \in Nat /\ FramesRead \in Int
    /\ Ins \in Seq(Int) /\ Len(Ins) = Len(client.up)
    /\ \A i \in 1..Len(client.up) : Ins[i] = FramesRead + i

LEMMA InsAre == IInv => Numbered
<1> SUFFICES ASSUME IInv PROVE Numbered
    OBVIOUS
<1>1. PICK n \in Nat : n = Len(client.up) /\ DOMAIN client.up = 1..n
    BY LenProperties DEF IInv, ClientType
<1>2. FramesRead \in Int
    BY <1>1 DEF FramesRead, IInv, ClientType
<1> DEFINE f == [i \in 1..n |-> FramesRead + i]
<1>3. Ins = f
    BY <1>1 DEF Ins
<1> HIDE DEF f
<1>4. f \in Seq(Int) /\ Len(f) = n /\ \A i \in 1..n : f[i] = FramesRead + i
    <2>1. \A i \in 1..n : FramesRead + i \in Int
        BY <1>2
    <2> QED
        BY <2>1, IsASeq, LenProperties DEF f
<1> QED
    BY <1>1, <1>2, <1>3, <1>4 DEF Numbered

LEMMA InsAreNext == IInv' => Numbered'
BY InsAre, PTL

LEMMA InsGrow ==
    ASSUME IInv, IInv', FramesRead' = FramesRead, Len(client'.up) = Len(client.up) + 1
    PROVE  Relay!OneMore(Ins, Ins')
<1>1. PICK n \in Nat : n = Len(client.up)
    BY InsAre DEF Numbered
<1>2. /\ Ins \in Seq(Int) /\ Len(Ins) = n /\ \A i \in 1..n : Ins[i] = FramesRead + i
    BY <1>1, InsAre DEF Numbered
<1>3. /\ Ins' \in Seq(Int) /\ Len(Ins') = n + 1 /\ \A i \in 1..(n + 1) : Ins'[i] = FramesRead + i
    BY <1>1, InsAreNext DEF Numbered
<1> QED
    BY <1>1, <1>2, <1>3, OneMoreIs

LEMMA InsShrink ==
    ASSUME IInv, IInv', client.up # <<>>, FramesRead' = FramesRead + 1,
           Len(client'.up) = Len(client.up) - 1
    PROVE  Ins # <<>> /\ Head(Ins) = FramesRead + 1 /\ Ins' = Tail(Ins)
<1>1. PICK n \in Nat, k \in Int : n = Len(client.up) /\ k = FramesRead
    BY InsAre DEF Numbered
<1>2. /\ Ins \in Seq(Int) /\ Len(Ins) = n /\ \A i \in 1..n : Ins[i] = k + i
    BY <1>1, InsAre DEF Numbered
<1>3. /\ Ins' \in Seq(Int) /\ Len(Ins') = n - 1 /\ \A i \in 1..(n - 1) : Ins'[i] = (k + 1) + i
    BY <1>1, InsAreNext DEF Numbered
<1>4. n > 0
    <2>1. client.up \in Seq(ClientFrames)
        BY DEF IInv, ClientType
    <2> QED
        BY <1>1, <2>1
<1>5. Ins # <<>>
    BY <1>2, <1>4
<1>6. /\ Head(Ins) = Ins[1] /\ Tail(Ins) \in Seq(Int) /\ Len(Tail(Ins)) = n - 1
      /\ \A i \in 1..(n - 1) : Tail(Ins)[i] = Ins[i + 1]
    BY <1>2, <1>5, HeadThenTail
<1>7. \A i \in 1..(n - 1) : i + 1 \in 1..n /\ k + (i + 1) = (k + 1) + i
    OBVIOUS
<1>8. \A i \in 1..(n - 1) : Ins'[i] = Tail(Ins)[i]
    BY <1>2, <1>3, <1>6, <1>7
<1>9. Ins' = Tail(Ins)
    BY <1>3, <1>6, <1>8, SeqEqual
<1>10. Ins[1] = k + 1
    BY <1>2, <1>4
<1> QED
    BY <1>1, <1>5, <1>6, <1>9, <1>10

(* What the steps of RelaySpec look like here. *)
LEMMA RelaySteps ==
    ASSUME Open, Open'
    PROVE  /\ /\ UNCHANGED <<Ins, Outs>>
              /\ daemon'.cmds = daemon.cmds /\ daemon'.acks = daemon.acks /\ daemon'.data = daemon.data
              => UNCHANGED Relay!vars
           /\ /\ Relay!OneMore(Ins, Ins') /\ UNCHANGED Outs
              /\ daemon'.cmds = daemon.cmds /\ daemon'.acks = daemon.acks /\ daemon'.data = daemon.data
              => Relay!Write
           /\ /\ Relay!OneMore(Outs, Outs') /\ UNCHANGED Ins
              /\ daemon'.cmds = daemon.cmds /\ daemon'.acks = daemon.acks /\ daemon'.data = daemon.data
              => Relay!Insert
           /\ /\ Outs # <<>> /\ Outs' = Tail(Outs) /\ UNCHANGED Ins
              /\ daemon'.cmds = daemon.cmds /\ daemon'.acks = daemon.acks /\ daemon'.data = daemon.data
              => Relay!Deliver
           /\ /\ daemon.cmds # <<>> /\ daemon'.cmds = Tail(daemon.cmds)
              /\ Relay!OneMore(daemon.acks, daemon'.acks)
              /\ UNCHANGED <<Ins, Outs>> /\ daemon'.data = daemon.data
              => Relay!Serve
           /\ /\ Relay!OneMore(daemon.data, daemon'.data)
              /\ UNCHANGED <<Ins, Outs>> /\ daemon'.cmds = daemon.cmds /\ daemon'.acks = daemon.acks
              => Relay!SendData
           /\ /\ daemon.acks # <<>> /\ Outs' = Append(Outs, Head(daemon.acks))
              /\ daemon'.acks = Tail(daemon.acks)
              /\ UNCHANGED Ins /\ daemon'.cmds = daemon.cmds /\ daemon'.data = daemon.data
              => Relay!RelayAck
           /\ /\ daemon.data # <<>> /\ daemon.cmds = <<>> /\ daemon.acks = <<>>
              /\ Outs' = Append(Outs, Head(daemon.data)) /\ daemon'.data = Tail(daemon.data)
              /\ UNCHANGED Ins /\ daemon'.cmds = daemon.cmds /\ daemon'.acks = daemon.acks
              => Relay!RelayData
           /\ /\ Ins # <<>> /\ daemon.cmds = <<>> /\ daemon.acks = <<>> /\ Ins' = Tail(Ins)
              /\ daemon'.acks = daemon.acks /\ daemon'.data = daemon.data
              => /\ daemon'.cmds = <<Head(Ins)>> /\ UNCHANGED Outs => Relay!Forward
                 /\ daemon'.cmds = daemon.cmds /\ UNCHANGED Outs => Relay!Lose
                 /\ daemon'.cmds = daemon.cmds /\ Relay!OneMore(Outs, Outs') => Relay!Answer
<1>1. Open = TRUE /\ Open' = TRUE
    OBVIOUS
<1>2. Relay!Unanswered = (daemon.cmds # <<>> \/ daemon.acks # <<>>)
    BY Zenon DEF Relay!Unanswered
<1> QED
    BY <1>1, <1>2, Zenon
    DEF Relay!vars, Relay!Write, Relay!Insert, Relay!Deliver, Relay!Serve, Relay!SendData,
        Relay!RelayAck, Relay!RelayData, Relay!Forward, Relay!Lose, Relay!Answer, Ins, Outs, Open

LEMMA StaysClosed ==
    ASSUME IInv, Next, Open'
    PROVE  Open
<1>1. p.state # "exited"
    <2>1. p.state = "handshake" \/ Running
        BY DEF Next, Handshake, Write, WriteRest, Read, Leave, ServeCommand, SendData, Proxy, Poll, Exit,
               SendPendingPackets, HandleDataSocket, HandleCommandSocket, HandleClientSocket,
               ClientSocketEnds, HandleClientPing, HandleShutdown, TurnOver, Handling
    <2> QED
        BY <2>1 DEF Running
<1>2. client'.conn = client.conn \/ client.conn # "reset"
    <2>1. \/ client' = client \/ client.conn # "reset"
          \/ \E up : client' = [client EXCEPT !.up = up]
          \/ client' = [client EXCEPT !.half = FALSE]
        BY DEF Next, Handshake, Write, WriteRest, Read, Leave, ServeCommand, SendData, Proxy, Poll, Exit,
               SendPendingPackets, HandleDataSocket, HandleCommandSocket, HandleClientSocket,
               ClientSocketEnds, HandleClientPing, HandleShutdown
    <2> QED
        BY <2>1 DEF IInv, ClientType
<1> QED
    BY <1>1, <1>2 DEF Open

(* The client, and acnetd. *)
LEMMA OutsideRelays ==
    ASSUME IInv, IInv', Open, Open'
    PROVE  /\ \A f \in Frames, half \in BOOLEAN : Write(f, half) => Relay!Write
           /\ WriteRest \/ (\E how \in {"eof", "reset"} : Leave(how)) => UNCHANGED Relay!vars
           /\ Read => Relay!Deliver \/ UNCHANGED Relay!vars
           /\ ServeCommand => Relay!Serve
           /\ SendData => Relay!SendData
<1>1. ASSUME NEW f \in Frames, NEW half \in BOOLEAN, Write(f, half)
      PROVE  Relay!Write
    <2> DEFINE up == client.up
    <2>1. /\ client \in [up : Seq(ClientFrames), half : BOOLEAN, conn : {"open", "eof", "reset"}, frames : Nat]
          /\ client' = [client EXCEPT !.up = Append(up, f), !.half = half, !.frames = client.frames + 1]
          /\ p' = p /\ daemon' = daemon
        BY <1>1 DEF IInv, ClientType, Write
    <2>2. /\ Len(Append(up, f)) = Len(up) + 1 /\ Len(up) \in Nat /\ client.frames \in Nat
        BY <2>1
    <2>3. client'.up = Append(up, f) /\ client'.frames = client.frames + 1
        BY <2>1
    <2>4. FramesRead' = FramesRead /\ Len(client'.up) = Len(client.up) + 1
        BY <2>2, <2>3 DEF FramesRead
    <2>5. Relay!OneMore(Ins, Ins')
        BY <2>4, InsGrow
    <2> QED
        BY <2>1, <2>5, OutsAre, RelaySteps
<1>2. ASSUME WriteRest \/ (\E how \in {"eof", "reset"} : Leave(how))
      PROVE  UNCHANGED Relay!vars
    <2>1. /\ p' = p /\ daemon' = daemon
          /\ client'.up = client.up /\ client'.frames = client.frames
        BY <1>2 DEF IInv, ClientType, WriteRest, Leave
    <2>2. UNCHANGED Ins
        BY <2>1 DEF Ins, FramesRead
    <2> QED
        BY <2>1, <2>2, OutsAre, RelaySteps
<1>3. ASSUME Read
      PROVE  Relay!Deliver \/ UNCHANGED Relay!vars
    <2>1. client' = client /\ daemon' = daemon
        BY <1>3 DEF Read
    <2>2. UNCHANGED Ins
        BY <2>1 DEF Ins, FramesRead
    <2>3. Out(p) \in Seq(UnitsOf) /\ Out(p) # <<>> /\ Out(p') = Tail(Out(p))
        BY <1>3, ReadStep, OutType DEF IInv, ProcessType
    <2>4. UNCHANGED Outs \/ (Outs # <<>> /\ Outs' = Tail(Outs))
        <3> DEFINE o == Out(p)
        <3>1. o \in Seq(UnitsOf) /\ o # <<>>
            BY <2>3
        <3> HIDE DEF o
        <3>2. \/ Arriving(Tail(o)) = Arriving(o)
              \/ Arriving(o) # <<>> /\ Arriving(Tail(o)) = Tail(Arriving(o))
            BY <3>1, ArrivingTail
        <3>3. Outs = Arriving(o) /\ Outs' = Arriving(Tail(o))
            BY <2>3, OutsAre, Zenon DEF o
        <3> QED
            BY <3>2, <3>3, Zenon
    <2> QED
        BY <2>1, <2>2, <2>4, RelaySteps
<1>4. ASSUME ServeCommand
      PROVE  Relay!Serve
    <2>0. PICK len \in AckSizes :
              daemon' = [daemon EXCEPT !.cmds = Tail(@),
                                       !.acks = Append(@, Message("ack", Head(daemon.cmds), 0, len)),
                                       !.served = Head(daemon.cmds)]
        BY <1>4 DEF ServeCommand
    <2> DEFINE m == Message("ack", Head(daemon.cmds), 0, len)
    <2>1. /\ daemon.cmds # <<>> /\ p' = p /\ client' = client
          /\ daemon' = [daemon EXCEPT !.cmds = Tail(daemon.cmds), !.acks = Append(daemon.acks, m),
                                      !.served = Head(daemon.cmds)]
        BY <1>4, <2>0 DEF ServeCommand
    <2>2. daemon.acks \in Seq(Messages) /\ daemon.cmds \in Seq(Nat) /\ Head(daemon.cmds) \in Nat
        BY <2>1 DEF IInv, DaemonType
    <2>3. m \in Messages
        <3>1. len \in Nat /\ len \in 0..MaxDatagram
            BY <2>0, DatagramSizes
        <3> QED
            BY <2>2, <3>1 DEF Message, Messages, Kinds
    <2> HIDE DEF m
    <2>4. /\ daemon'.cmds = Tail(daemon.cmds) /\ daemon'.acks = Append(daemon.acks, m)
          /\ daemon'.data = daemon.data
        BY <2>1 DEF IInv, DaemonType
    <2>5. Relay!OneMore(daemon.acks, daemon'.acks)
        BY <2>2, <2>3, <2>4, AppendIsOneMore
    <2>6. UNCHANGED <<Ins, Outs>>
        BY <2>1, OutsAre DEF Ins, FramesRead
    <2> QED
        BY <2>1, <2>4, <2>5, <2>6, RelaySteps
<1>5. ASSUME SendData
      PROVE  Relay!SendData
    <2>0. PICK len \in Sizes :
              daemon' = [daemon EXCEPT !.data = Append(@, Message("data", daemon.served, daemon.sent + 1, len)),
                                       !.sent = @ + 1]
        BY <1>5 DEF SendData
    <2> DEFINE m == Message("data", daemon.served, daemon.sent + 1, len)
    <2>1. /\ p' = p /\ client' = client
          /\ daemon' = [daemon EXCEPT !.data = Append(daemon.data, m), !.sent = daemon.sent + 1]
        BY <1>5, <2>0 DEF SendData
    <2>2. daemon.data \in Seq(Messages) /\ m \in Messages
        <3>1. len \in Nat /\ len \in 0..MaxDatagram
            BY <2>0, DatagramSizes
        <3> QED
            BY <3>1 DEF IInv, DaemonType, Message, Messages, Kinds
    <2> HIDE DEF m
    <2>3. /\ daemon'.cmds = daemon.cmds /\ daemon'.acks = daemon.acks
          /\ daemon'.data = Append(daemon.data, m)
        BY <2>1 DEF IInv, DaemonType
    <2>4. Relay!OneMore(daemon.data, daemon'.data)
        BY <2>2, <2>3, AppendIsOneMore
    <2>5. UNCHANGED <<Ins, Outs>>
        BY <2>1, OutsAre DEF Ins, FramesRead
    <2> QED
        BY <2>3, <2>4, <2>5, RelaySteps
<1> QED
    BY <1>1, <1>2, <1>3, <1>4, <1>5

(* The proxy. *)
LEMMA QuietlyRelays ==
    ASSUME IInv, Open, Open',
           \/ \E lines \in Openings, inTime \in BOOLEAN : Handshake(lines, inTime)
           \/ Poll \/ Exit \/ SendPendingPackets \/ ClientSocketEnds
    PROVE  UNCHANGED Relay!vars
<1>1. client' = client /\ daemon' = daemon
    BY DEF Handshake, Poll, Exit, SendPendingPackets, ClientSocketEnds
<1>2. Out(p') = Out(p)
    BY HandshakeStep, PollStep, ExitStep, SendPendingStep, ClientEndsStep
<1>3. UNCHANGED <<Ins, Outs>>
    BY <1>1, <1>2, OutsAre DEF Ins, FramesRead
<1> QED
    BY <1>1, <1>3, RelaySteps

LEMMA SaysRelays ==
    ASSUME IInv, Open, Open', HandleClientPing \/ HandleShutdown
    PROVE  Relay!Insert \/ UNCHANGED Relay!vars
<1>1. client' = client /\ daemon' = daemon
    BY DEF HandleClientPing, HandleShutdown
<1>2. UNCHANGED Ins
    BY <1>1 DEF Ins, FramesRead
<1>3. Out(p') = Out(p) \/ \E m \in Messages : Sends(m)
    BY PingStep, ShutdownStep
<1>4. Out(p') = Out(p) \/ \E m \in Messages : Out(p') = Out(p) \o Units(m)
    BY <1>3 DEF Sends
<1>5. UNCHANGED Outs \/ Relay!OneMore(Outs, Outs')
    BY <1>4, OutsAre, OutsGrow
<1> QED
    BY <1>1, <1>2, <1>5, RelaySteps

LEMMA SocketsRelay ==
    ASSUME IInv, Open, Open'
    PROVE  /\ HandleDataSocket => Relay!RelayData
           /\ HandleCommandSocket => Relay!RelayAck
<1>1. daemon.acks \in Seq(Messages) /\ daemon.data \in Seq(Messages)
    BY DEF IInv, DaemonType
<1>2. ASSUME NEW m \in Messages, Sends(m)
      PROVE  Outs' = Append(Outs, m)
    <2>1. Out(p') = Out(p) \o Units(m)
        BY <1>2 DEF Sends, Open
    <2>2. Outs' = Outs \o <<m>> /\ Outs \in Seq(Messages)
        BY <2>1, OutsGrow
    <2> QED
        BY <2>2
<1>3. ASSUME HandleDataSocket
      PROVE  Relay!RelayData
    <2>1. client' = client /\ daemon' = [daemon EXCEPT !.data = Tail(daemon.data)]
        BY <1>3 DEF HandleDataSocket
    <2>2. daemon.data # <<>> /\ daemon.cmds = <<>> /\ daemon.acks = <<>>
        BY <1>3 DEF HandleDataSocket, Handling, IInv, Turns
    <2>3. /\ daemon'.cmds = daemon.cmds /\ daemon'.acks = daemon.acks
          /\ daemon'.data = Tail(daemon.data)
        BY <2>1 DEF IInv, DaemonType
    <2>4. Head(daemon.data) \in Messages /\ Sends(Head(daemon.data))
        BY <1>1, <1>3, <2>2, DataStep
    <2>5. Outs' = Append(Outs, Head(daemon.data))
        BY <1>2, <2>4
    <2>6. UNCHANGED Ins
        BY <2>1 DEF Ins, FramesRead
    <2> QED
        BY <2>2, <2>3, <2>5, <2>6, RelaySteps
<1>4. ASSUME HandleCommandSocket
      PROVE  Relay!RelayAck
    <2>1. client' = client /\ daemon' = [daemon EXCEPT !.acks = Tail(daemon.acks)]
        BY <1>4 DEF HandleCommandSocket
    <2>2. daemon.acks # <<>>
        BY <1>4 DEF HandleCommandSocket, Handling, IInv, Turns
    <2>3. /\ daemon'.cmds = daemon.cmds /\ daemon'.data = daemon.data
          /\ daemon'.acks = Tail(daemon.acks)
        BY <2>1 DEF IInv, DaemonType
    <2>4. Head(daemon.acks) \in Messages /\ Sends(Head(daemon.acks))
        BY <1>1, <1>4, <2>2, CommandStep
    <2>5. Outs' = Append(Outs, Head(daemon.acks))
        BY <1>2, <2>4
    <2>6. UNCHANGED Ins
        BY <2>1 DEF Ins, FramesRead
    <2> QED
        BY <2>2, <2>3, <2>5, <2>6, RelaySteps
<1> QED
    BY <1>3, <1>4

(* A frame is forwarded, answered, or comes to nothing. *)
LEMMA ClientRelays ==
    ASSUME IInv, IInv', Open, Open', HandleClientSocket
    PROVE  Relay!Forward \/ Relay!Lose \/ Relay!Answer
<1>1. /\ Complete /\ client' = [client EXCEPT !.up = Tail(@)]
      /\ daemon.cmds = <<>> /\ daemon.acks = <<>>
      /\ daemon'.acks = daemon.acks /\ daemon'.data = daemon.data
      /\ daemon'.cmds = <<>> \/ (daemon'.cmds = <<FramesRead + 1>> /\ Out(p') = Out(p))
      /\ Out(p') = Out(p) \/ \E m \in Messages : Out(p') = Out(p) \o Units(m)
    BY ClientFrame
<1>2. FramesRead' = FramesRead + 1
    BY <1>1, NextFrame
<1>3. client.up # <<>> /\ Len(client'.up) = Len(client.up) - 1
    BY <1>1 DEF Complete, IInv, ClientType
<1>4. Ins # <<>> /\ Head(Ins) = FramesRead + 1 /\ Ins' = Tail(Ins)
    BY <1>2, <1>3, InsShrink
<1>5. UNCHANGED Outs \/ Relay!OneMore(Outs, Outs')
    BY <1>1, OutsAre, OutsGrow
<1>6. \/ daemon'.cmds = daemon.cmds
      \/ daemon'.cmds = <<Head(Ins)>> /\ UNCHANGED Outs
    <2>1. CASE daemon'.cmds = <<>>
        BY <1>1, <2>1
    <2>2. CASE daemon'.cmds = <<FramesRead + 1>> /\ Out(p') = Out(p)
        BY <1>4, <2>2, OutsAre, Zenon
    <2> QED
        BY <1>1, <2>1, <2>2
<1> HIDE DEF Ins, Outs
<1> QED
    BY <1>1, <1>4, <1>5, <1>6, RelaySteps, Zenon

LEMMA InitiallyRelays == Init => Relay!Init
<1> SUFFICES ASSUME Init PROVE Relay!Init
    OBVIOUS
<1>1. /\ client = [up |-> <<>>, half |-> FALSE, conn |-> "open", frames |-> 0]
      /\ daemon = [cmds |-> <<>>, acks |-> <<>>, data |-> <<>>, served |-> 0, sent |-> 0, lost |-> FALSE]
      /\ p = [state |-> "handshake", handler |-> "none", traffic |-> "all", events |-> {},
              done |-> FALSE, payload |-> <<>>, len |-> 0, q |-> <<>>, wire |-> <<>>]
    BY DEF Init
<1>2. daemon.cmds = <<>> /\ daemon.acks = <<>> /\ daemon.data = <<>> /\ Open
    BY <1>1 DEF Open
<1>3. Ins = <<>>
    <2>1. client.up = <<>> /\ DOMAIN <<>> = {}
        BY <1>1
    <2> QED
        BY <2>1 DEF Ins
<1>4. Outs = <<>>
    <2>1. Out(p) = <<>>
        BY <1>1, FlowEmpty DEF Out
    <2>2. [i \in DOMAIN <<>> |-> IF <<>>[i].part = 2 THEN <<<<>>[i].m>> ELSE <<>>] = <<>>
        <3>1. DOMAIN <<>> = {}
            OBVIOUS
        <3> QED
            BY <3>1
    <2>3. Arriving(<<>>) = <<>>
        BY <2>2, FlattenEmpty DEF Arriving
    <2> QED
        BY <2>1, <2>3, OutsAre
<1> QED
    BY <1>2, <1>3, <1>4 DEF Relay!Init, Ins, Outs, Open

LEMMA StepsRelay == IInv /\ IInv' /\ [Next]_vars => [Relay!Next]_(Relay!vars)
<1> SUFFICES ASSUME IInv, IInv', [Next]_vars
             PROVE  [Relay!Next]_(Relay!vars)
    OBVIOUS
<1>1. CASE ~Open'
    <2>1. Relay!End
        BY <1>1 DEF Relay!End, Open
    <2> QED
        BY <2>1 DEF Relay!Next
<1>2. CASE UNCHANGED vars
    <2>1. client' = client /\ daemon' = daemon /\ p' = p
        BY <1>2 DEF vars
    <2> QED
        BY <2>1 DEF Relay!vars, FramesRead, Pending
<1>3. CASE Next /\ Open'
    <2>1. Open
        BY <1>3, StaysClosed
    <2>2. ASSUME \/ Relay!Write \/ Relay!Forward \/ Relay!Answer \/ Relay!Lose \/ Relay!Serve
                 \/ Relay!SendData \/ Relay!RelayAck \/ Relay!RelayData \/ Relay!Insert \/ Relay!Deliver
          PROVE  Relay!Next
        BY <2>1, <2>2, Zenon DEF Relay!Next, Open
    <2>3. CASE \/ \E lines \in Openings, inTime \in BOOLEAN : Handshake(lines, inTime)
               \/ Poll \/ Exit \/ SendPendingPackets \/ ClientSocketEnds
        BY <1>3, <2>1, <2>3, QuietlyRelays
    <2>4. CASE \/ \E f \in Frames, half \in BOOLEAN : Write(f, half)
               \/ WriteRest \/ (\E how \in {"eof", "reset"} : Leave(how))
               \/ Read \/ ServeCommand \/ SendData
        BY <1>3, <2>1, <2>2, <2>4, OutsideRelays, Zenon
    <2>5. CASE HandleClientPing \/ HandleShutdown
        BY <1>3, <2>1, <2>2, <2>5, SaysRelays
    <2>6. CASE HandleDataSocket \/ HandleCommandSocket
        BY <1>3, <2>1, <2>2, <2>6, SocketsRelay
    <2>7. CASE HandleClientSocket
        BY <1>3, <2>1, <2>2, <2>7, ClientRelays
    <2> QED
        BY <1>3, <2>3, <2>4, <2>5, <2>6, <2>7, Zenon DEF Next, Proxy
<1> QED
    BY <1>1, <1>2, <1>3

(***************************************************************************)
(* Whatever the client sends, however its socket and the buffers fill, and *)
(* in whatever order the events of a turn find the proxy, it is a relay:   *)
(* it reads the client's frames in order and forwards none while the       *)
(* acknowledgement of another is due, and what acnetd sends reaches the    *)
(* client once and in order, nothing that a command gives rise to before   *)
(* its acknowledgement (tcpclient.cpp:74-105, 347-351, 470-517).           *)
(***************************************************************************)
THEOREM ProxyIsARelay == Spec => Implements
<1>1. Init => Relay!Init
    BY InitiallyRelays
<1>2. IInv /\ IInv' /\ [Next]_vars => [Relay!Next]_(Relay!vars)
    BY StepsRelay
<1> QED
    BY <1>1, <1>2, Inductive, PTL DEF Spec, Implements, Relay!Spec
=============================================================================
