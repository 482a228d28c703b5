-------------------------- MODULE TransportsProofs --------------------------
(***************************************************************************)
(* Who owns the descriptors, the port and the packet pool, for any number  *)
(* of objects, descriptors and ports: proofs of SocketsOwned, DpdkOwned    *)
(* and NoUseAfterClose. Every operation is a release, a change to an       *)
(* object that holds nothing, a move or a construction, or several of them *)
(* in a row, and each keeps the ownership. And what becomes of a queued    *)
(* request, for every capacity of the queue: a proof of QueuedSentInOrder. *)
(***************************************************************************)
EXTENDS Transports, Arithmetic

FdTable == UNION {[fds -> SocketKinds] : fds \in SUBSET (1 .. MaxFds)}

System ==
    [fds : FdTable, started : SUBSET (0 .. AvailablePorts), pool : BOOLEAN, eal : BOOLEAN]

HasFd(objs, o) == objs[o] # Absent /\ objs[o].fd # NoFd
HasPool(objs, o) == objs[o] # Absent /\ objs[o].pool

TypeCorrect(objs, s) == objs \in [Objects -> Transport \cup {Absent}] /\ s \in System

\* Descriptors in use and objects that hold one correspond.
FdsOwned(objs, s) ==
    /\ \A o \in Objects : HasFd(objs, o) =>
         /\ objs[o].kind \in SocketKinds
         /\ objs[o].fd \in DOMAIN s.fds
         /\ s.fds[objs[o].fd] = objs[o].kind
    /\ \A o, p \in Objects :
         HasFd(objs, o) /\ HasFd(objs, p) /\ objs[o].fd = objs[p].fd => o = p
    /\ \A fd \in DOMAIN s.fds : \E o \in Objects : HasFd(objs, o) /\ objs[o].fd = fd

\* The pool and the started port are those of the one open DPDK backend.
PoolOwned(objs, s) ==
    /\ \A o \in Objects : objs[o] # Absent => objs[o].open = objs[o].pool
    /\ \A o \in Objects : HasPool(objs, o) => objs[o].kind = "dpdk"
    /\ \A o, p \in Objects : HasPool(objs, o) /\ HasPool(objs, p) => o = p
    /\ s.pool <=> \E o \in Objects : HasPool(objs, o)
    /\ \A o \in Objects : HasPool(objs, o) => objs[o].port \in s.started
    /\ \A port \in s.started : \E o \in Objects : HasPool(objs, o) /\ objs[o].port = port

Owned(objs, s) == TypeCorrect(objs, s) /\ FdsOwned(objs, s) /\ PoolOwned(objs, s)

\* An object that holds nothing.
Empty(x) == x = Absent \/ (x.fd = NoFd /\ x.open = FALSE /\ x.pool = FALSE)

-----------------------------------------------------------------------------
\* A table of descriptors is a function from some of the numbers to kinds.
LEMMA FdTables ==
    ASSUME NEW f
    PROVE  f \in FdTable <=> /\ f \in [DOMAIN f -> SocketKinds]
                             /\ DOMAIN f \subseteq 1 .. MaxFds
BY DEF FdTable

\* The ownership of descriptors depends only on the objects that hold one.
LEMMA SameFds ==
    ASSUME NEW objs, NEW s, FdsOwned(objs, s), NEW n, NEW t, t.fds = s.fds,
           \A q \in Objects : HasFd(n, q) <=> HasFd(objs, q),
           \A q \in Objects : HasFd(n, q) => n[q] = objs[q]
    PROVE  FdsOwned(n, t)
<1>1. \A q \in Objects : HasFd(n, q) =>
        n[q].kind \in SocketKinds /\ n[q].fd \in DOMAIN t.fds /\ t.fds[n[q].fd] = n[q].kind
  BY DEF FdsOwned
<1>2. \A p, q \in Objects : HasFd(n, p) /\ HasFd(n, q) /\ n[p].fd = n[q].fd => p = q
  BY DEF FdsOwned
<1>3. \A fd \in DOMAIN t.fds : \E q \in Objects : HasFd(n, q) /\ n[q].fd = fd
  BY DEF FdsOwned
<1> QED
  BY <1>1, <1>2, <1>3 DEF FdsOwned

\* The ownership of the pool depends only on the objects that hold it.
LEMMA SamePool ==
    ASSUME NEW objs, NEW s, PoolOwned(objs, s), NEW n, NEW t,
           t.started = s.started, t.pool = s.pool,
           \A q \in Objects : n[q] # Absent => n[q].open = n[q].pool,
           \A q \in Objects : HasPool(n, q) <=> HasPool(objs, q),
           \A q \in Objects : HasPool(n, q) => n[q] = objs[q]
    PROVE  PoolOwned(n, t)
<1>1. \A q \in Objects : HasPool(n, q) => n[q].kind = "dpdk" /\ n[q].port \in t.started
  BY DEF PoolOwned
<1>2. \A p, q \in Objects : HasPool(n, p) /\ HasPool(n, q) => p = q
  BY DEF PoolOwned
<1>3. t.pool <=> \E q \in Objects : HasPool(n, q)
  BY DEF PoolOwned
<1>4. \A port \in t.started : \E q \in Objects : HasPool(n, q) /\ n[q].port = port
  BY DEF PoolOwned
<1> QED
  BY <1>1, <1>2, <1>3, <1>4 DEF PoolOwned

\* An object that holds nothing may become any other that holds nothing, or none.
LEMMA EmptyReplaced ==
    ASSUME NEW objs, NEW s, Owned(objs, s), NEW o \in Objects, Empty(objs[o]),
           NEW x \in Transport \cup {Absent}, Empty(x)
    PROVE  Owned([objs EXCEPT ![o] = x], s)
<1> DEFINE n == [objs EXCEPT ![o] = x]
<1>1. n[o] = x /\ \A q \in Objects : q # o => n[q] = objs[q]
  BY DEF Owned, TypeCorrect
<1>2. TypeCorrect(n, s)
  BY DEF Owned, TypeCorrect
<1> HIDE DEF n
<1>3. \A q \in Objects : /\ HasFd(n, q) <=> HasFd(objs, q)
                         /\ HasPool(n, q) <=> HasPool(objs, q)
  <2>1. ~HasFd(objs, o) /\ ~HasPool(objs, o)
    BY DEF Empty, HasFd, HasPool
  <2>2. ~HasFd(n, o) /\ ~HasPool(n, o)
    BY <1>1 DEF Empty, HasFd, HasPool
  <2> QED
    BY <1>1, <2>1, <2>2 DEF HasFd, HasPool
<1>4. \A q \in Objects : HasFd(n, q) \/ HasPool(n, q) => n[q] = objs[q]
  BY <1>1 DEF Empty, HasFd, HasPool
<1>5. FdsOwned(n, s)
  BY <1>3, <1>4, SameFds DEF Owned
<1>6. PoolOwned(n, s)
  <2>1. \A q \in Objects : n[q] # Absent => n[q].open = n[q].pool
    BY <1>1 DEF Owned, PoolOwned, Empty
  <2> QED
    BY <1>3, <1>4, <2>1, SamePool DEF Owned
<1> QED
  BY <1>2, <1>5, <1>6 DEF Owned, n

\* What a move leaves of its source holds nothing.
LEMMA MovedFromEmpty ==
    ASSUME NEW x \in Transport
    PROVE  MovedFrom(x) \in Transport /\ Empty(MovedFrom(x))
<1> DEFINE closed == x.kind \in SocketKinds
<1>1. closed \in BOOLEAN
  OBVIOUS
<1> HIDE DEF closed
<1>2. MovedFrom(x) = [x EXCEPT !.valid = FALSE, !.closed = closed, !.fd = NoFd,
                               !.open = FALSE, !.pool = FALSE]
  BY Zenon DEF MovedFrom, closed
<1> QED
  BY <1>1, <1>2 DEF Transport, Empty

\* A move hands over what its source holds.
LEMMA Moved ==
    ASSUME NEW objs, NEW s, Owned(objs, s), NEW o \in Objects, NEW p \in Objects,
           o # p, Empty(objs[o]), objs[p] # Absent
    PROVE  Owned([objs EXCEPT ![o] = objs[p], ![p] = MovedFrom(objs[p])], s)
<1> DEFINE x == objs[p]
           y == MovedFrom(x)
           n == [objs EXCEPT ![o] = x, ![p] = y]
<1>1. x \in Transport
  BY DEF Owned, TypeCorrect
<1>2. y \in Transport /\ Empty(y)
  BY <1>1, MovedFromEmpty
<1>3. n[o] = x /\ n[p] = y /\ \A q \in Objects : q # o /\ q # p => n[q] = objs[q]
  BY DEF Owned, TypeCorrect
<1>4. TypeCorrect(n, s)
  BY <1>1, <1>2 DEF Owned, TypeCorrect
<1> HIDE DEF n, y
<1> DEFINE back(q) == IF q = o THEN p ELSE q
<1>5. ~HasFd(n, p) /\ ~HasPool(n, p) /\ ~HasFd(objs, o) /\ ~HasPool(objs, o)
  BY <1>2, <1>3 DEF Empty, HasFd, HasPool
<1>6. \A q \in Objects : HasFd(n, q) \/ HasPool(n, q) =>
        /\ back(q) \in Objects /\ n[q] = objs[back(q)]
        /\ HasFd(n, q) <=> HasFd(objs, back(q))
        /\ HasPool(n, q) <=> HasPool(objs, back(q))
  BY <1>3, <1>5 DEF HasFd, HasPool
<1>7. \A q, r \in Objects : q # p /\ r # p /\ back(q) = back(r) => q = r
  OBVIOUS
<1>8. \A r \in Objects : HasFd(objs, r) \/ HasPool(objs, r) =>
        \E q \in Objects : /\ n[q] = objs[r]
                           /\ HasFd(n, q) <=> HasFd(objs, r)
                           /\ HasPool(n, q) <=> HasPool(objs, r)
  <2> SUFFICES ASSUME NEW r \in Objects, HasFd(objs, r) \/ HasPool(objs, r)
               PROVE  \E q \in Objects : /\ n[q] = objs[r]
                                         /\ HasFd(n, q) <=> HasFd(objs, r)
                                         /\ HasPool(n, q) <=> HasPool(objs, r)
    OBVIOUS
  <2> DEFINE q == IF r = p THEN o ELSE r
  <2>1. q \in Objects /\ n[q] = objs[r]
    BY <1>3, <1>5
  <2> HIDE DEF q
  <2> QED
    BY <2>1 DEF HasFd, HasPool
<1> HIDE DEF back
<1>9. FdsOwned(n, s)
  <2>1. \A q \in Objects : HasFd(n, q) =>
          n[q].kind \in SocketKinds /\ n[q].fd \in DOMAIN s.fds /\ s.fds[n[q].fd] = n[q].kind
    BY <1>6 DEF Owned, FdsOwned
  <2>2. \A q, r \in Objects : HasFd(n, q) /\ HasFd(n, r) /\ n[q].fd = n[r].fd => q = r
    BY <1>5, <1>6, <1>7 DEF Owned, FdsOwned
  <2>3. \A fd \in DOMAIN s.fds : \E q \in Objects : HasFd(n, q) /\ n[q].fd = fd
    BY <1>8 DEF Owned, FdsOwned
  <2> QED
    BY <2>1, <2>2, <2>3 DEF FdsOwned
<1>10. PoolOwned(n, s)
  <2>1. \A q \in Objects : n[q] # Absent => n[q].open = n[q].pool
    <3>1. y.open = y.pool
      BY <1>2, TransportAssumption DEF Empty
    <3>2. x.open = x.pool
      BY DEF Owned, PoolOwned
    <3> QED
      BY <1>3, <3>1, <3>2 DEF Owned, PoolOwned
  <2>2. \A q \in Objects : HasPool(n, q) => n[q].kind = "dpdk" /\ n[q].port \in s.started
    BY <1>6 DEF Owned, PoolOwned
  <2>3. \A q, r \in Objects : HasPool(n, q) /\ HasPool(n, r) => q = r
    BY <1>5, <1>6, <1>7 DEF Owned, PoolOwned
  <2>4. s.pool <=> \E q \in Objects : HasPool(n, q)
    BY <1>6, <1>8 DEF Owned, PoolOwned
  <2>5. \A port \in s.started : \E q \in Objects : HasPool(n, q) /\ n[q].port = port
    BY <1>8 DEF Owned, PoolOwned
  <2> QED
    BY <2>1, <2>2, <2>3, <2>4, <2>5 DEF PoolOwned
<1> QED
  BY <1>4, <1>9, <1>10 DEF Owned, n, y

\* close_socket gives one descriptor back.
LEMMA SocketClosed ==
    ASSUME NEW objs, NEW s, Owned(objs, s), NEW o \in Objects, objs[o] # Absent,
           objs[o].kind \in SocketKinds,
           NEW r, r = close_socket(objs[o], s)
    PROVE  /\ Owned([objs EXCEPT ![o] = r.object], r.os)
           /\ r.object \in Transport /\ Empty(r.object)
<1> DEFINE x == objs[o]
           y == r.object
           t == r.os
           n == [objs EXCEPT ![o] = y]
           fds == [f \in DOMAIN s.fds \ {x.fd} |-> s.fds[f]]
<1>1. x \in Transport /\ s \in System /\ objs \in [Objects -> Transport \cup {Absent}]
  BY DEF Owned, TypeCorrect
<1>2. y = [x EXCEPT !.fd = NoFd] /\ t = [s EXCEPT !.fds = fds]
  BY DEF close_socket, Pair
<1>3. x.pool = FALSE /\ x.open = FALSE
  <2>1. x.kind # "dpdk"
    BY DEF SocketKinds
  <2>2. x.open = x.pool /\ ~x.pool /\ x.pool \in BOOLEAN
    BY <1>1, <2>1 DEF Owned, PoolOwned, HasPool, Transport
  <2> QED
    BY <2>2
<1>4. y \in Transport /\ Empty(y)
  BY <1>1, <1>2, <1>3 DEF Transport, Empty
<1>5. fds \in FdTable
  <2>1. s.fds \in FdTable
    BY <1>1 DEF System
  <2>2. s.fds \in [DOMAIN s.fds -> SocketKinds] /\ DOMAIN s.fds \subseteq 1 .. MaxFds
    BY <2>1, FdTables
  <2>3. fds \in [DOMAIN fds -> SocketKinds] /\ DOMAIN fds \subseteq 1 .. MaxFds
    BY <2>2
  <2> HIDE DEF fds
  <2> QED
    BY <2>3, FdTables
<1>6. DOMAIN fds = DOMAIN s.fds \ {x.fd} /\ \A f \in DOMAIN fds : fds[f] = s.fds[f]
  OBVIOUS
<1> HIDE DEF fds, y, t
<1>7. t \in System /\ t.fds = fds /\ t.started = s.started /\ t.pool = s.pool
  BY <1>1, <1>2, <1>5 DEF System
<1>8. n[o] = y /\ n \in [Objects -> Transport \cup {Absent}]
      /\ \A q \in Objects : q # o => n[q] = objs[q]
  BY <1>1, <1>4
<1> HIDE DEF n
<1>9. /\ ~HasFd(n, o) /\ ~HasPool(n, o) /\ ~HasPool(objs, o)
      /\ \A q \in Objects : q # o => /\ HasFd(n, q) <=> HasFd(objs, q)
                                     /\ HasPool(n, q) <=> HasPool(objs, q)
  <2>1. ~HasFd(n, o) /\ ~HasPool(n, o) /\ ~HasPool(objs, o)
    BY <1>3, <1>4, <1>8 DEF Empty, HasFd, HasPool
  <2>2. \A q \in Objects : q # o => /\ HasFd(n, q) <=> HasFd(objs, q)
                                    /\ HasPool(n, q) <=> HasPool(objs, q)
    BY <1>8 DEF HasFd, HasPool
  <2> QED
    BY <2>1, <2>2
<1>10. \A q \in Objects : HasFd(objs, q) /\ q # o => objs[q].fd # x.fd
  <2> SUFFICES ASSUME NEW q \in Objects, HasFd(objs, q), q # o, objs[q].fd = x.fd
               PROVE  FALSE
    OBVIOUS
  <2>1. HasFd(objs, o)
    BY DEF HasFd
  <2> QED
    BY <2>1 DEF Owned, FdsOwned
<1>11. FdsOwned(n, t)
  <2>1. \A q \in Objects : HasFd(n, q) =>
          n[q].kind \in SocketKinds /\ n[q].fd \in DOMAIN fds /\ fds[n[q].fd] = n[q].kind
    BY <1>6, <1>8, <1>9, <1>10 DEF Owned, FdsOwned
  <2>2. \A p, q \in Objects : HasFd(n, p) /\ HasFd(n, q) /\ n[p].fd = n[q].fd => p = q
    BY <1>8, <1>9 DEF Owned, FdsOwned
  <2>3. \A fd \in DOMAIN fds : \E q \in Objects : HasFd(n, q) /\ n[q].fd = fd
    BY <1>6, <1>8, <1>9 DEF Owned, FdsOwned
  <2> QED
    BY <1>7, <2>1, <2>2, <2>3 DEF FdsOwned
<1>12. PoolOwned(n, t)
  <2>1. \A q \in Objects : n[q] # Absent => n[q].open = n[q].pool
    BY <1>4, <1>8, TransportAssumption DEF Owned, PoolOwned, Empty
  <2>2. \A q \in Objects : HasPool(n, q) <=> HasPool(objs, q)
    BY <1>9
  <2>3. \A q \in Objects : HasPool(n, q) => n[q] = objs[q]
    BY <1>8, <1>9
  <2> QED
    BY <1>7, <2>1, <2>2, <2>3, SamePool DEF Owned
<1> QED
  BY <1>4, <1>7, <1>8, <1>11, <1>12 DEF Owned, TypeCorrect, n, y, t

\* cleanup stops the port and frees the pool.
LEMMA DpdkClosed ==
    ASSUME NEW objs, NEW s, Owned(objs, s), NEW o \in Objects, objs[o] # Absent,
           objs[o].kind = "dpdk",
           NEW r, r = cleanup(objs[o], s)
    PROVE  /\ Owned([objs EXCEPT ![o] = r.object], r.os)
           /\ r.object \in Transport /\ Empty(r.object)
<1> DEFINE x == objs[o]
           y == r.object
           t == r.os
           n == [objs EXCEPT ![o] = y]
           started == IF x.open THEN s.started \ {x.port} ELSE s.started
           pool == IF x.pool THEN FALSE ELSE s.pool
<1>1. x \in Transport /\ s \in System /\ objs \in [Objects -> Transport \cup {Absent}]
  BY DEF Owned, TypeCorrect
<1>2. /\ y = [x EXCEPT !.open = FALSE, !.pool = FALSE]
      /\ t = [s EXCEPT !.started = started, !.pool = pool]
  BY DEF cleanup, Pair
<1>3. x.fd = NoFd
  BY DEF Owned, FdsOwned, HasFd, SocketKinds
<1>4. y \in Transport /\ Empty(y)
  BY <1>1, <1>2, <1>3 DEF Transport, Empty
<1>5. started \in SUBSET (0 .. AvailablePorts) /\ pool \in BOOLEAN
  BY <1>1 DEF System
<1>6. x.open = x.pool /\ x.pool \in BOOLEAN
  BY <1>1 DEF Owned, PoolOwned, Transport
<1>7. n[o] = y /\ n \in [Objects -> Transport \cup {Absent}]
      /\ \A q \in Objects : q # o => n[q] = objs[q]
  <2> HIDE DEF y
  <2> QED
    BY <1>1, <1>4
<1> HIDE DEF n, y, t
<1>8. t \in System /\ t.fds = s.fds /\ t.started = started /\ t.pool = pool
  <2> HIDE DEF started, pool
  <2> QED
    BY <1>1, <1>2, <1>5 DEF System
<1>9. ~HasFd(n, o) /\ ~HasPool(n, o) /\ ~HasFd(objs, o)
  BY <1>3, <1>4, <1>7 DEF Empty, HasFd, HasPool
<1>10. \A q \in Objects : q # o => /\ HasFd(n, q) <=> HasFd(objs, q)
                                   /\ HasPool(n, q) <=> HasPool(objs, q)
  BY <1>7 DEF HasFd, HasPool
<1>11. FdsOwned(n, t)
  <2>1. \A q \in Objects : HasFd(n, q) <=> HasFd(objs, q)
    BY <1>9, <1>10
  <2>2. \A q \in Objects : HasFd(n, q) => n[q] = objs[q]
    BY <1>7, <1>9
  <2> QED
    BY <1>8, <2>1, <2>2, SameFds DEF Owned
<1>12. PoolOwned(n, t)
  <2>1. \A q \in Objects : n[q] # Absent => n[q].open = n[q].pool
    BY <1>4, <1>7, TransportAssumption DEF Owned, PoolOwned, Empty
  <2>2. CASE x.pool
    <3>1. HasPool(objs, o)
      BY <2>2 DEF HasPool
    <3>2. \A q \in Objects : ~HasPool(n, q)
      BY <1>9, <1>10, <3>1 DEF Owned, PoolOwned
    <3>3. s.started \ {x.port} = {}
      <4>1. \A q \in Objects : HasPool(objs, q) => q = o
        BY <3>1 DEF Owned, PoolOwned
      <4>2. \A port \in s.started : \E q \in Objects :
              HasPool(objs, q) /\ objs[q].port = port
        BY DEF Owned, PoolOwned
      <4> QED
        BY <4>1, <4>2
    <3>4. started = {} /\ pool = FALSE
      BY <1>6, <2>2, <3>3
    <3> QED
      BY <1>8, <2>1, <3>2, <3>4 DEF PoolOwned
  <2>3. CASE ~x.pool
    <3>1. started = s.started /\ pool = s.pool
      BY <1>6, <2>3
    <3>2. \A q \in Objects : HasPool(n, q) <=> HasPool(objs, q)
      BY <1>9, <1>10, <2>3 DEF HasPool
    <3>3. \A q \in Objects : HasPool(n, q) => n[q] = objs[q]
      BY <1>7, <1>9
    <3>4. t.started = s.started /\ t.pool = s.pool /\ PoolOwned(objs, s)
      BY <1>8, <3>1 DEF Owned
    <3> QED
      BY <2>1, <3>2, <3>3, <3>4, SamePool
  <2> QED
    BY <2>2, <2>3
<1> QED
  BY <1>4, <1>7, <1>8, <1>11, <1>12 DEF Owned, TypeCorrect, n, y, t

\* Destructors, close and move assignment give back what the object holds.
LEMMA ReleasedOwned ==
    ASSUME NEW objs, NEW s, Owned(objs, s), NEW o \in Objects, objs[o] # Absent,
           NEW r, r = Released(objs[o], s)
    PROVE  /\ Owned([objs EXCEPT ![o] = r.object], r.os)
           /\ r.object \in Transport /\ Empty(r.object)
<1> DEFINE x == objs[o]
<1>1. x \in Transport /\ objs \in [Objects -> Transport \cup {Absent}]
  BY DEF Owned, TypeCorrect
<1>2. CASE x.kind \in SocketKinds
  BY <1>2, SocketClosed DEF Released
<1>3. CASE x.kind = "dpdk"
  <2>1. r = cleanup(x, s)
    BY <1>3 DEF Released, SocketKinds
  <2> QED
    BY <1>3, <2>1, DpdkClosed
<1>4. CASE x.kind \notin SocketKinds /\ x.kind # "dpdk"
  <2>1. r.object = x /\ r.os = s
    BY <1>4 DEF Released, Pair
  <2>2. [objs EXCEPT ![o] = x] = objs
    BY <1>1
  <2>3. x.fd = NoFd /\ x.pool = FALSE /\ x.open = FALSE
    BY <1>1, <1>4 DEF Owned, FdsOwned, PoolOwned, HasFd, HasPool, Transport
  <2> QED
    BY <1>1, <2>1, <2>2, <2>3 DEF Empty
<1> QED
  BY <1>2, <1>3, <1>4

\* Initializing the EAL changes no owner.
LEMMA SameSystem ==
    ASSUME NEW objs, NEW s, Owned(objs, s), NEW t \in System,
           t.fds = s.fds, t.started = s.started, t.pool = s.pool
    PROVE  Owned(objs, t)
BY DEF Owned, TypeCorrect, FdsOwned, PoolOwned

\* The object whose constructor opened a socket owns it.
LEMMA SocketOpened ==
    ASSUME Owned(objects, os), NEW o \in Objects, objects[o] = Absent,
           NEW x \in Transport, Empty(x), x.kind \in SocketKinds, FreeFds # {},
           NEW made, made = Opened(x, Min(FreeFds))
    PROVE  /\ Owned([objects EXCEPT ![o] = made.object], made.os)
           /\ made.object \in Transport /\ made.object.kind = x.kind
<1> DEFINE fd == Min(FreeFds)
           fds == [f \in DOMAIN os.fds \cup {fd} |-> IF f = fd THEN x.kind ELSE os.fds[f]]
           y == made.object
           t == made.os
           n == [objects EXCEPT ![o] = y]
<1>1. /\ FreeFds # {} /\ y = [x EXCEPT !.fd = fd] /\ t = [os EXCEPT !.fds = fds]
  BY DEF Opened, Pair
<1>2. fd \in 1 .. MaxFds /\ fd \notin DOMAIN os.fds
  <2>1. FreeFds \subseteq Nat
    BY TransportAssumption DEF FreeFds
  <2>2. \E m \in FreeFds : \A k \in FreeFds : m <= k
    BY <1>1, <2>1, LeastNatural
  <2>3. fd \in FreeFds
    BY <2>2, Zenon DEF Min
  <2> QED
    BY <2>3 DEF FreeFds
<1> HIDE DEF fd
<1>3. os \in System /\ objects \in [Objects -> Transport \cup {Absent}]
      /\ os.fds \in [DOMAIN os.fds -> SocketKinds] /\ DOMAIN os.fds \subseteq 1 .. MaxFds
  <2>1. os \in System /\ objects \in [Objects -> Transport \cup {Absent}]
    BY DEF Owned, TypeCorrect
  <2>2. os.fds \in FdTable
    BY <2>1 DEF System
  <2> QED
    BY <2>1, <2>2, FdTables
<1>4. /\ DOMAIN fds = DOMAIN os.fds \cup {fd}
      /\ fds[fd] = x.kind
      /\ \A f \in DOMAIN os.fds : fds[f] = os.fds[f]
  BY <1>2
<1>5. fds \in FdTable
  <2>1. fds \in [DOMAIN fds -> SocketKinds] /\ DOMAIN fds \subseteq 1 .. MaxFds
    BY <1>2, <1>3
  <2> HIDE DEF fds
  <2> QED
    BY <2>1, FdTables
<1> HIDE DEF fds
<1>6. t \in System /\ t.fds = fds /\ t.started = os.started /\ t.pool = os.pool
  BY <1>1, <1>3, <1>5 DEF System
<1>7. /\ y \in Transport /\ y.fd = fd /\ y.kind = x.kind
      /\ y.open = x.open /\ y.pool = x.pool
  BY <1>1, <1>2 DEF Transport
<1>8. y # Absent /\ x # Absent /\ fd # NoFd
  BY <1>2, <1>7, TransportAssumption DEF NoFd
<1> HIDE DEF y, t
<1>9. n[o] = y /\ n \in [Objects -> Transport \cup {Absent}]
      /\ \A q \in Objects : q # o => n[q] = objects[q]
  BY <1>3, <1>7
<1> HIDE DEF n
<1>10. \A q \in Objects : q # o => /\ HasFd(n, q) <=> HasFd(objects, q)
                                   /\ HasPool(n, q) <=> HasPool(objects, q)
  BY <1>9 DEF HasFd, HasPool
<1>11. /\ HasFd(n, o) /\ ~HasPool(n, o) /\ ~HasFd(objects, o) /\ ~HasPool(objects, o)
  BY <1>7, <1>8, <1>9 DEF HasFd, HasPool, Empty
<1>12. FdsOwned(n, t)
  <2>0. \A q \in Objects : q # o /\ HasFd(n, q) =>
          /\ n[q].kind \in SocketKinds
          /\ n[q].fd \in DOMAIN os.fds /\ os.fds[n[q].fd] = n[q].kind
    <3>1. \A q \in Objects : HasFd(objects, q) =>
            /\ objects[q].kind \in SocketKinds
            /\ objects[q].fd \in DOMAIN os.fds /\ os.fds[objects[q].fd] = objects[q].kind
      BY DEF Owned, FdsOwned
    <3> QED
      BY <1>9, <1>10, <3>1
  <2>1. \A q \in Objects : HasFd(n, q) =>
          n[q].kind \in SocketKinds /\ n[q].fd \in DOMAIN fds /\ fds[n[q].fd] = n[q].kind
    BY <1>4, <1>7, <1>9, <2>0
  <2>2. \A q \in Objects : q # o /\ HasFd(n, q) => n[q].fd # fd
    BY <1>2, <2>0
  <2>3. \A p, q \in Objects : HasFd(n, p) /\ HasFd(n, q) /\ n[p].fd = n[q].fd => p = q
    BY <1>7, <1>9, <1>10, <2>2 DEF Owned, FdsOwned
  <2>4. \A f \in DOMAIN fds : \E q \in Objects : HasFd(n, q) /\ n[q].fd = f
    <3> SUFFICES ASSUME NEW f \in DOMAIN fds
                 PROVE  \E q \in Objects : HasFd(n, q) /\ n[q].fd = f
      OBVIOUS
    <3>1. CASE f = fd
      BY <1>7, <1>9, <1>11, <3>1
    <3>2. CASE f \in DOMAIN os.fds
      <4>1. PICK q \in Objects : HasFd(objects, q) /\ objects[q].fd = f
        BY <3>2 DEF Owned, FdsOwned
      <4>2. HasFd(n, q) /\ n[q].fd = f
        BY <1>9, <1>10, <1>11, <4>1
      <4> QED
        BY <4>2
    <3> QED
      BY <1>4, <3>1, <3>2
  <2> QED
    BY <1>6, <2>1, <2>3, <2>4 DEF FdsOwned
<1>13. PoolOwned(n, t)
  <2>1. \A q \in Objects : n[q] # Absent => n[q].open = n[q].pool
    <3>1. x.open = FALSE /\ x.pool = FALSE
      BY <1>8 DEF Empty
    <3>2. y.open = y.pool
      BY <1>7, <3>1
    <3>3. \A q \in Objects : objects[q] # Absent => objects[q].open = objects[q].pool
      BY DEF Owned, PoolOwned
    <3> QED
      BY <1>9, <3>2, <3>3
  <2>2. \A q \in Objects : HasPool(n, q) <=> HasPool(objects, q)
    BY <1>10, <1>11
  <2>3. \A q \in Objects : HasPool(n, q) => n[q] = objects[q]
    BY <1>9, <1>11
  <2> QED
    BY <1>6, <2>1, <2>2, <2>3, SamePool DEF Owned
<1>14. Owned(n, t)
  BY <1>6, <1>9, <1>12, <1>13 DEF Owned, TypeCorrect
<1> QED
  BY <1>7, <1>14 DEF n, y, t

\* open_socket leaves an object that owns its descriptor, or no descriptor: the one
\* of a receiver that could not be bound is closed.
LEMMA SocketOpenedOrNot ==
    ASSUME Owned(objects, os), NEW o \in Objects, objects[o] = Absent,
           NEW x \in Transport, Empty(x), x.kind \in SocketKinds,
           NEW made \in open_socket(x)
    PROVE  Owned([objects EXCEPT ![o] = made.object], made.os)
<1> DEFINE opened == Opened(x, Min(FreeFds))
           n == [objects EXCEPT ![o] = opened.object]
<1>1. CASE made = Pair(x, os)
  <2>1. made.object = x /\ made.os = os
    BY <1>1 DEF Pair
  <2> QED
    BY <2>1, EmptyReplaced DEF Empty
<1>2. CASE FreeFds # {} /\ made = opened
  BY <1>2, SocketOpened
<1>3. CASE FreeFds # {} /\ made = close_socket(opened.object, opened.os)
  <2>1. Owned(n, opened.os) /\ opened.object \in Transport /\ opened.object.kind = x.kind
    BY <1>3, SocketOpened
  <2> HIDE DEF opened
  <2>2. objects \in [Objects -> Transport \cup {Absent}] /\ opened.object # Absent
    BY <2>1, TransportAssumption DEF Owned, TypeCorrect
  <2>3. n[o] = opened.object
    BY <2>2
  <2>4. [n EXCEPT ![o] = made.object] = [objects EXCEPT ![o] = made.object]
    BY <2>2
  <2> HIDE DEF n
  <2>5. Owned([n EXCEPT ![o] = made.object], made.os)
    BY <1>3, <2>1, <2>2, <2>3, SocketClosed
  <2> QED
    BY <2>4, <2>5
<1> QED
  BY <1>1, <1>2, <1>3, Zenon DEF open_socket

\* initialize leaves a backend that owns the pool and its port, or nothing.
LEMMA DpdkOpened ==
    ASSUME Owned(objects, os), NEW o \in Objects, objects[o] = Absent,
           NEW x \in Transport, Empty(x), x.kind = "dpdk",
           NEW made \in initialize(x)
    PROVE  Owned([objects EXCEPT ![o] = made.object], made.os)
<1> DEFINE started == [os EXCEPT !.eal = TRUE]
           pooled == Pair([x EXCEPT !.pool = TRUE], [started EXCEPT !.pool = TRUE])
           open == Pair([pooled.object EXCEPT !.open = TRUE],
                        [pooled.os EXCEPT !.started = @ \cup {x.port}])
           y == made.object
           t == made.os
           n == [objects EXCEPT ![o] = y]
<1>1. os \in System /\ objects \in [Objects -> Transport \cup {Absent}]
      /\ x # Absent /\ x.fd = NoFd /\ x.open = FALSE /\ x.pool = FALSE
  BY TransportAssumption DEF Owned, TypeCorrect, Empty
<1>2. \/ made \in {Pair(x, os), Pair(x, started)}
      \/ ~os.pool /\ made \in {cleanup(pooled.object, pooled.os), open}
  BY Zenon DEF initialize
<1>3. CASE made \in {Pair(x, os), Pair(x, started)}
  <2>1. y = x /\ t \in System /\ t.fds = os.fds /\ t.started = os.started
        /\ t.pool = os.pool
    <3>1. CASE made = Pair(x, os)
      BY <1>1, <3>1 DEF Pair
    <3>2. CASE made = Pair(x, started)
      <4>1. y = x /\ t = [os EXCEPT !.eal = TRUE]
        BY <3>2 DEF Pair
      <4> QED
        BY <1>1, <4>1 DEF System
    <3> QED
      BY <1>3, <3>1, <3>2
  <2>2. Owned(n, os)
    BY <2>1, EmptyReplaced DEF Empty
  <2> HIDE DEF n, t, y
  <2>3. Owned(n, t)
    BY <2>1, <2>2, SameSystem
  <2> QED
    BY <2>3 DEF n, t, y
<1>4. CASE ~os.pool /\ made = cleanup(pooled.object, pooled.os)
  <2>1. /\ y = [x EXCEPT !.pool = FALSE, !.open = FALSE]
        /\ t = [os EXCEPT !.eal = TRUE, !.pool = FALSE]
    BY <1>1, <1>4 DEF Pair, cleanup, Transport, System
  <2>2. y \in Transport /\ Empty(y)
    BY <1>1, <2>1 DEF Transport, Empty
  <2>3. t \in System /\ t.fds = os.fds /\ t.started = os.started /\ t.pool = os.pool
    BY <1>1, <1>4, <2>1 DEF System
  <2> HIDE DEF t, y
  <2>4. Owned(n, os)
    BY <2>2, EmptyReplaced DEF Empty
  <2> HIDE DEF n
  <2>5. Owned(n, t)
    BY <2>3, <2>4, SameSystem
  <2> QED
    BY <2>5 DEF n, t, y
<1>5. CASE ~os.pool /\ made = open
  <2>1. /\ y = [x EXCEPT !.pool = TRUE, !.open = TRUE]
        /\ t = [os EXCEPT !.eal = TRUE, !.pool = TRUE, !.started = os.started \cup {x.port}]
    BY <1>1, <1>5 DEF Pair, Transport, System
  <2>2. /\ y \in Transport /\ y.pool = TRUE /\ y.open = TRUE /\ y.fd = NoFd
        /\ y.kind = "dpdk" /\ y.port = x.port
    BY <1>1, <2>1 DEF Transport
  <2>3. /\ t \in System /\ t.fds = os.fds /\ t.pool = TRUE
        /\ t.started = os.started \cup {x.port}
    <3> DEFINE ports == os.started \cup {x.port}
    <3>1. ports \in SUBSET (0 .. AvailablePorts)
      BY <1>1 DEF System, Transport
    <3> HIDE DEF ports
    <3>2. t = [os EXCEPT !.eal = TRUE, !.pool = TRUE, !.started = ports]
      BY <2>1 DEF ports
    <3>3. t \in System /\ t.fds = os.fds /\ t.pool = TRUE /\ t.started = ports
      BY <1>1, <3>1, <3>2 DEF System
    <3> QED
      BY <3>3 DEF ports
  <2> HIDE DEF t, y
  <2>4. n[o] = y /\ n \in [Objects -> Transport \cup {Absent}]
        /\ \A q \in Objects : q # o => n[q] = objects[q]
    BY <1>1, <2>2
  <2> HIDE DEF n
  <2>5. y # Absent
    BY <2>2, TransportAssumption
  <2>6. \A q \in Objects : q # o => /\ HasFd(n, q) <=> HasFd(objects, q)
                                    /\ HasPool(n, q) <=> HasPool(objects, q)
    BY <2>4 DEF HasFd, HasPool
  <2>7. ~HasFd(n, o) /\ HasPool(n, o) /\ ~HasFd(objects, o)
    BY <2>2, <2>4, <2>5 DEF HasFd, HasPool
  <2>8. (\A q \in Objects : ~HasPool(objects, q)) /\ os.started = {}
    BY <1>5 DEF Owned, PoolOwned
  <2>9. FdsOwned(n, t)
    <3>1. \A q \in Objects : HasFd(n, q) <=> HasFd(objects, q)
      BY <2>6, <2>7
    <3>2. \A q \in Objects : HasFd(n, q) => n[q] = objects[q]
      BY <2>4, <2>7
    <3> QED
      BY <2>3, <3>1, <3>2, SameFds DEF Owned
  <2>10. PoolOwned(n, t)
    <3>1. \A q \in Objects : n[q] # Absent => n[q].open = n[q].pool
      BY <2>2, <2>4 DEF Owned, PoolOwned
    <3>2. \A q \in Objects : HasPool(n, q) <=> q = o
      BY <2>6, <2>7, <2>8
    <3>3. t.started = {y.port}
      BY <2>2, <2>3, <2>8
    <3> QED
      BY <2>2, <2>3, <2>4, <3>1, <3>2, <3>3 DEF PoolOwned
  <2> QED
    BY <2>3, <2>4, <2>9, <2>10 DEF Owned, TypeCorrect, n, y, t
<1> QED
  BY <1>2, <1>3, <1>4, <1>5

-----------------------------------------------------------------------------
\* Objects closed or moved from hold nothing.
DeadHoldNothing == dead \subseteq Objects /\ \A o \in dead : Empty(objects[o])

\* The inductive invariant.
TransportsInv == Owned(objects, os) /\ DeadHoldNothing /\ NoUseAfterClose

\* Nobody owns anything at the start.
LEMMA TransportsInitial == Init => TransportsInv
<1> SUFFICES ASSUME Init PROVE TransportsInv
  OBVIOUS
<1> DEFINE none == [fd \in {} |-> "none"]
<1>1. none \in FdTable /\ DOMAIN none = {}
  <2>1. DOMAIN none = {} /\ none \in [DOMAIN none -> SocketKinds]
    OBVIOUS
  <2> HIDE DEF none
  <2> QED
    BY <2>1, FdTables
<1>2. os = [fds |-> none, started |-> {}, pool |-> FALSE, eal |-> FALSE]
  BY DEF Init
<1> HIDE DEF none
<1>3. os \in System /\ os.fds = none /\ os.started = {} /\ os.pool = FALSE
  BY <1>1, <1>2 DEF System
<1>4. objects \in [Objects -> Transport \cup {Absent}]
      /\ \A o \in Objects : objects[o] = Absent
  BY DEF Init
<1>5. FdsOwned(objects, os)
  BY <1>1, <1>3, <1>4 DEF FdsOwned, HasFd
<1>6. PoolOwned(objects, os)
  BY <1>3, <1>4 DEF PoolOwned, HasPool
<1>7. DeadHoldNothing /\ NoUseAfterClose
  BY DEF Init, DeadHoldNothing, NoUseAfterClose
<1> QED
  BY <1>3, <1>4, <1>5, <1>6, <1>7 DEF TransportsInv, Owned, TypeCorrect

\* The constructors.
LEMMA ConstructKeeps ==
    ASSUME TransportsInv, NEW o \in Objects, NEW kind \in SocketKinds \cup BackendKinds,
           NEW valid \in BOOLEAN, NEW port \in 0 .. AvailablePorts,
           Construct(o, kind, valid, port)
    PROVE  TransportsInv'
<1> DEFINE x == Unopened(kind, valid, port)
<1>1. x \in Transport /\ Empty(x) /\ x.kind = kind
  BY DEF Unopened, Transport, Empty
<1> HIDE DEF x
<1>2. objects[o] = Absent /\ Owned(objects, os)
  BY DEF Construct, Live, TransportsInv
<1>3. PICK made \in Constructed(x) :
        objects' = [objects EXCEPT ![o] = made.object] /\ os' = made.os
  BY DEF Construct, x
<1>4. Owned([objects EXCEPT ![o] = made.object], made.os)
  <2>1. CASE kind \in SocketKinds
    BY <1>1, <1>2, <1>3, <2>1, SocketOpenedOrNot DEF Constructed
  <2>2. CASE kind = "dpdk"
    <3>1. made \in initialize(x)
      BY <1>1, <1>3, <2>2 DEF Constructed, SocketKinds
    <3> QED
      BY <1>1, <1>2, <2>2, <3>1, DpdkOpened
  <2>3. CASE kind \notin SocketKinds /\ kind # "dpdk"
    <3>1. made = Pair(x, os)
      BY <1>1, <1>3, <2>3 DEF Constructed
    <3>2. made.object = x /\ made.os = os
      BY <3>1 DEF Pair
    <3> QED
      BY <1>1, <1>2, <3>2, EmptyReplaced DEF Empty
  <2> QED
    BY <2>1, <2>2, <2>3
<1>5. result' = Absent /\ dead' = dead \ {o}
  BY DEF Construct
<1>6. \A q \in dead' : objects'[q] = objects[q]
  BY <1>2, <1>3, <1>5 DEF TransportsInv, DeadHoldNothing, Owned, TypeCorrect
<1>7. DeadHoldNothing'
  BY <1>5, <1>6 DEF TransportsInv, DeadHoldNothing
<1> QED
  BY <1>3, <1>4, <1>5, <1>7 DEF TransportsInv, NoUseAfterClose

\* What a move does to the objects that hold nothing.
LEMMA DeadMoved ==
    ASSUME TransportsInv, NEW o \in Objects, NEW p \in Objects, o # p, objects[p] # Absent,
           objects' = [objects EXCEPT ![o] = objects[p], ![p] = MovedFrom(objects[p])],
           dead' = DeadAfterMove(o, p)
    PROVE  DeadHoldNothing'
<1>1. objects \in [Objects -> Transport \cup {Absent}] /\ dead \subseteq Objects
      /\ \A q \in dead : Empty(objects[q])
  BY DEF TransportsInv, DeadHoldNothing, Owned, TypeCorrect
<1>2. Empty(MovedFrom(objects[p]))
  BY <1>1, MovedFromEmpty
<1>3. objects'[o] = objects[p] /\ objects'[p] = MovedFrom(objects[p])
      /\ \A q \in Objects : q # o /\ q # p => objects'[q] = objects[q]
  BY <1>1
<1>4. dead' \subseteq Objects /\ (o \in dead' => p \in dead)
      /\ \A q \in dead' : q # o /\ q # p => q \in dead
  BY <1>1 DEF DeadAfterMove
<1>5. \A q \in dead' : Empty(objects'[q])
  BY <1>1, <1>2, <1>3, <1>4
<1> QED
  BY <1>4, <1>5 DEF DeadHoldNothing

\* Move construction and move assignment.
LEMMA MovesKeep ==
    ASSUME TransportsInv, NEW o \in Objects, NEW p \in Objects,
           MoveConstruct(o, p) \/ MoveAssign(o, p)
    PROVE  TransportsInv'
<1> DEFINE n == [objects EXCEPT ![o] = objects[p], ![p] = MovedFrom(objects[p])]
<1>1. /\ o # p /\ objects[p] # Absent /\ objects' = n
      /\ result' = Absent /\ dead' = DeadAfterMove(o, p)
  BY DEF MoveConstruct, MoveAssign, Movable, Live
<1>2. Owned(objects, os) /\ objects \in [Objects -> Transport \cup {Absent}]
  BY DEF TransportsInv, Owned, TypeCorrect
<1>3. Owned(n, os')
  <2>1. CASE MoveConstruct(o, p)
    <3>1. Empty(objects[o]) /\ os' = os
      BY <2>1 DEF MoveConstruct, Live, Empty
    <3> QED
      BY <1>1, <1>2, <3>1, Moved
  <2>2. CASE MoveAssign(o, p)
    <3> DEFINE r == Released(objects[o], os)
               m == [objects EXCEPT ![o] = r.object]
    <3>1. objects[o] # Absent /\ os' = r.os
      BY <2>2 DEF MoveAssign, Live
    <3>2. Owned(m, r.os) /\ Empty(r.object)
      BY <1>2, <3>1, ReleasedOwned
    <3>3. m[o] = r.object /\ m[p] = objects[p]
      BY <1>1, <1>2
    <3>4. [m EXCEPT ![o] = objects[p], ![p] = MovedFrom(objects[p])] = n
      BY <1>2
    <3> HIDE DEF m, r
    <3>5. Owned([m EXCEPT ![o] = m[p], ![p] = MovedFrom(m[p])], r.os)
      BY <1>1, <3>2, <3>3, Moved
    <3> QED
      BY <3>1, <3>3, <3>4, <3>5
  <2> QED
    BY <2>1, <2>2
<1>4. DeadHoldNothing'
  BY <1>1, DeadMoved
<1> QED
  BY <1>1, <1>3, <1>4 DEF TransportsInv, NoUseAfterClose

\* close and the destructors.
LEMMA CloseKeeps ==
    ASSUME TransportsInv, NEW o \in Objects, Close(o) \/ Destroy(o)
    PROVE  TransportsInv'
<1> DEFINE r == Released(objects[o], os)
           m == [objects EXCEPT ![o] = r.object]
           closed == objects[o].kind \in SocketKinds
           x == [r.object EXCEPT !.closed = closed]
<1>1. Owned(objects, os) /\ objects \in [Objects -> Transport \cup {Absent}]
      /\ objects[o] # Absent /\ result' = Absent /\ os' = r.os
  BY DEF TransportsInv, Owned, TypeCorrect, Close, Destroy, Live
<1>2. \/ objects' = [objects EXCEPT ![o] = x] /\ dead' = dead \cup {o}
      \/ objects' = [objects EXCEPT ![o] = Absent] /\ dead' = dead \ {o}
  BY DEF Close, Destroy
<1>3. Owned(m, r.os) /\ r.object \in Transport /\ Empty(r.object)
  BY <1>1, ReleasedOwned
<1>4. closed \in BOOLEAN
  OBVIOUS
<1> HIDE DEF r, closed
<1>5. x \in Transport /\ Empty(x) /\ Empty(Absent)
  <2>1. r.object # Absent
    BY <1>3, TransportAssumption
  <2> QED
    BY <1>3, <1>4, <2>1 DEF Transport, Empty
<1> HIDE DEF x
<1>6. \A y : [m EXCEPT ![o] = y] = [objects EXCEPT ![o] = y] /\ m[o] = r.object
  BY <1>1
<1> HIDE DEF m
<1>7. Owned(objects', os')
  <2>1. \A y \in Transport \cup {Absent} : Empty(y) => Owned([m EXCEPT ![o] = y], r.os)
    BY <1>3, <1>6, EmptyReplaced
  <2>2. Owned([m EXCEPT ![o] = x], r.os) /\ Owned([m EXCEPT ![o] = Absent], r.os)
    BY <1>5, <2>1
  <2>3. Owned([objects EXCEPT ![o] = x], r.os) /\ Owned([objects EXCEPT ![o] = Absent], r.os)
    BY <1>6, <2>2, Zenon
  <2> QED
    BY <1>1, <1>2, <2>3, Zenon
<1>8. DeadHoldNothing'
  <2>1. dead \subseteq Objects /\ \A q \in dead : Empty(objects[q])
    BY DEF TransportsInv, DeadHoldNothing
  <2>2. Empty(objects'[o]) /\ \A q \in Objects : q # o => objects'[q] = objects[q]
    BY <1>1, <1>2, <1>5
  <2>3. dead' \subseteq Objects /\ \A q \in dead' : q # o => q \in dead
    BY <1>2, <2>1
  <2> QED
    BY <2>1, <2>2, <2>3 DEF DeadHoldNothing
<1> QED
  BY <1>1, <1>7, <1>8 DEF TransportsInv, NoUseAfterClose

\* submit, send and receive succeed only for an object that holds a handle.
LEMMA UseKeeps ==
    ASSUME TransportsInv, NEW o \in Objects, NEW size, NEW done, Use(o, size, done)
    PROVE  TransportsInv'
<1> DEFINE x == objects[o]
           reason == IF x.kind = "receiver" THEN receive(x, size, done)
                                            ELSE submit(x, size, done)
<1>1. x # Absent /\ result' = [from |-> o, reason |-> reason]
      /\ objects' = objects /\ os' = os /\ dead' = dead
  BY DEF Use, Live
<1>2. ASSUME reason = "none"
      PROVE  IF x.kind = "dpdk" THEN x.open /\ x.pool ELSE x.fd # NoFd
  <2>1. CASE x.kind = "receiver"
    BY <1>2, <2>1 DEF receive
  <2>2. CASE x.kind = "dpdk"
    BY <1>2, <2>2 DEF submit, dpdk_submit
  <2>3. CASE x.kind \notin {"receiver", "dpdk"}
    BY <1>2, <2>3 DEF submit, afxdp_submit, kernel_udp_submit
  <2> QED
    BY <2>1, <2>2, <2>3
<1> HIDE DEF reason
<1>3. ASSUME reason = "none"
      PROVE  /\ o \notin dead
             /\ IF x.kind = "dpdk" THEN x.port \in os.started /\ os.pool
                ELSE x.fd \in DOMAIN os.fds
  <2>1. ~Empty(x)
    BY <1>1, <1>2, <1>3 DEF Empty
  <2>2. o \notin dead
    BY <2>1 DEF TransportsInv, DeadHoldNothing
  <2>3. CASE x.kind = "dpdk"
    <3>1. HasPool(objects, o)
      BY <1>1, <1>2, <1>3, <2>3 DEF HasPool
    <3> QED
      BY <2>2, <2>3, <3>1 DEF TransportsInv, Owned, PoolOwned
  <2>4. CASE x.kind # "dpdk"
    <3>1. HasFd(objects, o)
      BY <1>1, <1>2, <1>3, <2>4 DEF HasFd
    <3> QED
      BY <2>2, <2>4, <3>1 DEF TransportsInv, Owned, FdsOwned
  <2> QED
    BY <2>3, <2>4
<1>4. NoUseAfterClose'
  BY <1>1, <1>3 DEF NoUseAfterClose
<1>5. DeadHoldNothing'
  BY <1>1 DEF TransportsInv, DeadHoldNothing
<1> QED
  BY <1>1, <1>4, <1>5 DEF TransportsInv

\* Every step keeps the invariant.
LEMMA TransportsStep == TransportsInv /\ [Next]_vars => TransportsInv'
<1> SUFFICES ASSUME TransportsInv, [Next]_vars PROVE TransportsInv'
  OBVIOUS
<1>1. ASSUME NEW o \in Objects, NEW valid \in BOOLEAN,
             NEW kind \in SocketKinds \cup {"afxdp"}, Construct(o, kind, valid, 0)
      PROVE  TransportsInv'
  <2>1. kind \in SocketKinds \cup BackendKinds /\ 0 \in 0 .. AvailablePorts
    BY TransportAssumption DEF BackendKinds
  <2> QED
    BY <1>1, <2>1, ConstructKeeps
<1>2. ASSUME NEW o \in Objects, NEW valid \in BOOLEAN, NEW port \in 0 .. AvailablePorts,
             Construct(o, "dpdk", valid, port)
      PROVE  TransportsInv'
  <2>1. "dpdk" \in SocketKinds \cup BackendKinds
    BY DEF BackendKinds
  <2> QED
    BY <1>2, <2>1, ConstructKeeps
<1>3. ASSUME NEW o \in Objects, NEW p \in Objects, MoveConstruct(o, p) \/ MoveAssign(o, p)
      PROVE  TransportsInv'
  BY <1>3, MovesKeep
<1>4. ASSUME NEW o \in Objects, Close(o) \/ Destroy(o)
      PROVE  TransportsInv'
  BY <1>4, CloseKeeps
<1>5. ASSUME NEW o \in Objects, NEW size, NEW done, Use(o, size, done)
      PROVE  TransportsInv'
  BY <1>5, UseKeeps
<1>6. ASSUME NEW o \in Objects, EncodeReject(o)
      PROVE  TransportsInv'
  BY <1>6 DEF EncodeReject, TransportsInv, DeadHoldNothing, NoUseAfterClose
<1>7. ASSUME NEW size, QueuedSubmit(size)
      PROVE  TransportsInv'
  BY <1>7 DEF QueuedSubmit, TransportsInv, DeadHoldNothing, NoUseAfterClose
<1>8. ASSUME NEW o \in Objects, NEW n, drain_to(o, n)
      PROVE  TransportsInv'
  BY <1>8 DEF drain_to, TransportsInv, DeadHoldNothing, NoUseAfterClose
<1>10. ASSUME NEW sent, drain_one_to(sent)
      PROVE  TransportsInv'
  BY <1>10 DEF drain_one_to, TransportsInv, DeadHoldNothing, NoUseAfterClose
<1>11. CASE DrainReturns
  BY <1>11 DEF DrainReturns, TransportsInv, DeadHoldNothing, NoUseAfterClose
<1>9. CASE UNCHANGED vars
  BY <1>9 DEF vars, TransportsInv, DeadHoldNothing, NoUseAfterClose
<1> QED
  BY <1>1, <1>2, <1>3, <1>4, <1>5, <1>6, <1>7, <1>8, <1>9, <1>10, <1>11 DEF Next, OwnerStep

\* Ownership is exclusive in every behaviour.
THEOREM TransportsInvariant == Spec => []TransportsInv
BY TransportsInitial, TransportsStep, PTL DEF Spec

\* No descriptor leaks, is shared or is kept after close_socket, for any number of
\* objects and descriptors.
THEOREM EverySocketOwned == Spec => []SocketsOwned
<1>1. TransportsInv => SocketsOwned
  <2> SUFFICES ASSUME TransportsInv PROVE SocketsOwned
    OBVIOUS
  <2>1. ASSUME NEW fd \in DOMAIN os.fds
        PROVE  \E o \in Objects : Holding(fd) = {o} /\ objects[o].kind = os.fds[fd]
    <3>1. PICK o \in Objects : HasFd(objects, o) /\ objects[o].fd = fd
      BY DEF TransportsInv, Owned, FdsOwned
    <3>2. objects[o].kind = os.fds[fd]
      BY <3>1 DEF TransportsInv, Owned, FdsOwned
    <3>3. \A p \in Objects : Live(p) /\ objects[p].fd = fd => p = o
      BY <3>1 DEF TransportsInv, Owned, FdsOwned, HasFd, Live
    <3>4. Holding(fd) = {o}
      BY <3>1, <3>3 DEF Holding, Live, HasFd
    <3> QED
      BY <3>2, <3>4
  <2>2. \A o \in Objects : Live(o) => objects[o].fd \in DOMAIN os.fds \cup {NoFd}
    BY DEF TransportsInv, Owned, FdsOwned, HasFd, Live
  <2> QED
    BY <2>1, <2>2 DEF SocketsOwned
<1> QED
  BY <1>1, TransportsInvariant, PTL

\* At most one DPDK backend is open; the pool and the port are its own, whatever
\* step of initialize fails.
THEOREM OneDpdkOwner == Spec => []DpdkOwned
<1>1. TransportsInv => DpdkOwned
  <2> SUFFICES ASSUME TransportsInv PROVE DpdkOwned
    OBVIOUS
  <2>1. Pooled = {o \in Objects : HasPool(objects, o)}
    BY DEF Pooled, HasPool, Live
  <2>2. os.pool <=> Pooled # {}
    BY <2>1 DEF TransportsInv, Owned, PoolOwned
  <2>3. \A o, p \in Pooled : o = p
    BY <2>1 DEF TransportsInv, Owned, PoolOwned
  <2>4. os.started = {objects[o].port : o \in Pooled}
    <3>1. \A o \in Pooled : objects[o].port \in os.started
      BY <2>1 DEF TransportsInv, Owned, PoolOwned
    <3>2. \A port \in os.started : \E o \in Pooled : objects[o].port = port
      BY <2>1 DEF TransportsInv, Owned, PoolOwned
    <3> QED
      BY <3>1, <3>2
  <2>5. \A o \in Objects : Live(o) => objects[o].open = objects[o].pool
    BY DEF TransportsInv, Owned, PoolOwned, Live
  <2> QED
    BY <2>2, <2>3, <2>4, <2>5 DEF DpdkOwned
<1> QED
  BY <1>1, TransportsInvariant, PTL

\* submit, send and receive never succeed on an object closed or moved from.
THEOREM ClosedStaysClosed == Spec => []NoUseAfterClose
<1>1. TransportsInv => NoUseAfterClose
  BY DEF TransportsInv
<1> QED
  BY <1>1, TransportsInvariant, PTL

-----------------------------------------------------------------------------
(***************************************************************************)
(* The queue: it holds the requests that follow the ones drained, in the   *)
(* order they were accepted in, and a drain_to in progress may still take  *)
(* all that it has to.                                                     *)
(***************************************************************************)
\* What is on the wire is in order and not newer than request n.
InOrder(on_wire, n) ==
    /\ on_wire \in Seq(Nat)
    /\ \A k \in DOMAIN on_wire : on_wire[k] <= n
    /\ \A j, k \in DOMAIN on_wire : j < k => on_wire[j] < on_wire[k]

\* What is due is in the queue, and within the limit of the drain in progress.
DrainInv ==
    /\ due \in Nat /\ due <= Len(queue)
    /\ draining # Absent => draining \in Drain /\ due <= draining.left
    /\ draining = Absent => due = 0

QueueInv ==
    /\ queued \in Nat /\ drained \in Nat /\ queue \in Seq(Nat)
    /\ Len(queue) + drained = queued
    /\ \A k \in DOMAIN queue : queue[k] = drained + k
    /\ InOrder(wire, drained)
    /\ DrainInv

\* A newer request may go on the wire.
LEMMA AppendInOrder ==
    ASSUME NEW on_wire, NEW n \in Nat, InOrder(on_wire, n)
    PROVE  InOrder(on_wire, n + 1) /\ InOrder(Append(on_wire, n + 1), n + 1)
<1> DEFINE l == Len(on_wire)
           new == Append(on_wire, n + 1)
<1>1. /\ on_wire \in Seq(Nat) /\ l \in Nat /\ DOMAIN on_wire = 1 .. l
      /\ \A k \in 1 .. l : on_wire[k] \in Nat /\ on_wire[k] <= n
      /\ \A j, k \in 1 .. l : j < k => on_wire[j] < on_wire[k]
  BY DEF InOrder
<1>2. /\ new \in Seq(Nat) /\ DOMAIN new = 1 .. l + 1
      /\ new[l + 1] = n + 1 /\ \A k \in 1 .. l : new[k] = on_wire[k]
  BY <1>1
<1> HIDE DEF l, new
<1>3. InOrder(on_wire, n + 1)
  BY <1>1 DEF InOrder
<1>4. InOrder(new, n + 1)
  <2>1. ASSUME NEW k \in DOMAIN new PROVE new[k] <= n + 1
    <3>1. CASE k = l + 1
      BY <1>2, <3>1
    <3>2. CASE k \in 1 .. l
      BY <1>1, <1>2, <3>2
    <3> QED
      BY <1>1, <1>2, <3>1, <3>2
  <2>2. ASSUME NEW j \in DOMAIN new, NEW k \in DOMAIN new, j < k PROVE new[j] < new[k]
    <3>1. j \in 1 .. l /\ new[j] = on_wire[j]
      BY <1>1, <1>2, <2>2
    <3>2. CASE k = l + 1
      BY <1>1, <1>2, <3>1, <3>2
    <3>3. CASE k \in 1 .. l
      BY <1>1, <1>2, <2>2, <3>1, <3>3
    <3> QED
      BY <1>1, <1>2, <3>2, <3>3
  <2> QED
    BY <1>2, <2>1, <2>2 DEF InOrder
<1> QED
  BY <1>3, <1>4 DEF new

\* A request that is queued takes the next number; one that is not changes nothing.
LEMMA SubmitKeepsQueue ==
    ASSUME QueueInv, NEW size, QueuedSubmit(size)
    PROVE  QueueInv'
<1>1. CASE UNCHANGED <<queue, queued>>
  BY <1>1 DEF QueueInv, DrainInv, QueuedSubmit, InOrder
<1>2. CASE queue' = Append(queue, queued + 1) /\ queued' = queued + 1
  <2> DEFINE l == Len(queue)
  <2>1. /\ l \in Nat /\ DOMAIN queue = 1 .. l /\ queued = l + drained
        /\ queued \in Nat /\ drained \in Nat /\ queue \in Seq(Nat)
    BY DEF QueueInv
  <2>2. /\ queue' \in Seq(Nat) /\ Len(queue') = l + 1 /\ DOMAIN queue' = 1 .. l + 1
        /\ queue'[l + 1] = queued + 1 /\ \A k \in 1 .. l : queue'[k] = queue[k]
    BY <1>2, <2>1
  <2>3. drained' = drained /\ wire' = wire /\ due' = due /\ draining' = draining
    BY DEF QueuedSubmit
  <2>4. \A k \in 1 .. l : queue[k] = drained + k
    BY <2>1 DEF QueueInv
  <2> HIDE DEF l
  <2>5. queue'[l + 1] = drained + (l + 1)
    BY <2>1, <2>2
  <2>6. ASSUME NEW k \in DOMAIN queue' PROVE queue'[k] = drained' + k
    <3>1. CASE k = l + 1
      BY <2>3, <2>5, <3>1
    <3>2. CASE k \in 1 .. l
      BY <2>2, <2>3, <2>4, <3>2
    <3> QED
      BY <2>1, <2>2, <3>1, <3>2
  <2>7. InOrder(wire, drained)'
    BY <2>3 DEF QueueInv, InOrder
  <2>8. DrainInv'
    BY <2>1, <2>2, <2>3 DEF QueueInv, DrainInv, l
  <2> QED
    BY <1>2, <2>1, <2>2, <2>3, <2>6, <2>7, <2>8 DEF QueueInv, l
<1> QED
  BY <1>1, <1>2 DEF QueuedSubmit

\* drain_to owes what is queued when it is called, within its limit.
LEMMA DrainBegins ==
    ASSUME QueueInv, NEW o \in Objects, NEW n \in 1 .. QueueCapacity, drain_to(o, n)
    PROVE  QueueInv'
<1>1. n \in Nat /\ Len(queue) \in Nat
  BY TransportAssumption DEF QueueInv
<1>2. \E m \in {n, Len(queue)} : \A k \in {n, Len(queue)} : m <= k
  BY <1>1
<1>3. due' \in {n, Len(queue)} /\ \A k \in {n, Len(queue)} : due' <= k
  BY <1>2, Zenon DEF drain_to, Min
<1>4. draining' \in Drain /\ draining'.left = n
  BY <1>1 DEF drain_to, Drain
<1>5. UNCHANGED <<queue, queued, drained, wire>>
  BY DEF drain_to
<1>6. DrainInv'
  BY <1>1, <1>3, <1>4, <1>5, TransportAssumption DEF DrainInv
<1> QED
  BY <1>5, <1>6 DEF QueueInv, InOrder

\* A round of drain_to takes the oldest request, whatever the backend answers.
LEMMA RoundKeepsQueue ==
    ASSUME QueueInv, draining # Absent, NEW sent, drain_one_to(sent)
    PROVE  QueueInv'
<1> DEFINE l == Len(queue)
<1>1. /\ l \in Nat /\ l > 0 /\ DOMAIN queue = 1 .. l /\ drained \in Nat /\ queued \in Nat
      /\ queue \in Seq(Nat) /\ l + drained = queued
  BY DEF QueueInv, drain_one_to
<1>2. /\ queue' = Tail(queue) /\ drained' = drained + 1 /\ queued' = queued
      /\ draining.left > 0 /\ draining' = [draining EXCEPT !.left = @ - 1]
      /\ due' = IF due > 0 THEN due - 1 ELSE 0
  BY DEF drain_one_to
<1>3. /\ queue' \in Seq(Nat) /\ Len(queue') = l - 1 /\ DOMAIN queue' = 1 .. l - 1
      /\ \A k \in 1 .. l - 1 : queue'[k] = queue[k + 1]
  BY <1>1, <1>2
<1>4. Head(queue) = drained + 1 /\ \A k \in 1 .. l : queue[k] = drained + k
  BY <1>1 DEF QueueInv
<1> HIDE DEF l
<1>5. \A k \in DOMAIN queue' : queue'[k] = drained' + k
  <2> SUFFICES ASSUME NEW k \in 1 .. l - 1 PROVE queue'[k] = drained' + k
    BY <1>3
  <2>1. k + 1 \in 1 .. l /\ queue'[k] = queue[k + 1]
    BY <1>1, <1>3
  <2>2. queue[k + 1] = drained + (k + 1)
    BY <1>4, <2>1
  <2> QED
    BY <1>1, <1>2, <2>1, <2>2
<1>6. InOrder(wire, drained)'
  <2>1. wire' = wire \/ wire' = Append(wire, drained + 1)
    BY <1>4, Zenon DEF drain_one_to
  <2>2. InOrder(wire, drained)
    BY DEF QueueInv
  <2>3. InOrder(wire', drained')
    BY <1>1, <1>2, <2>1, <2>2, AppendInOrder
  <2> QED
    BY <2>3 DEF InOrder
<1>7. DrainInv'
  <2>1. draining \in Drain /\ due \in Nat /\ due <= draining.left /\ due <= l
    BY DEF QueueInv, DrainInv, l
  <2>2. draining' \in Drain /\ draining'.left = draining.left - 1
    BY <1>2, <2>1 DEF Drain
  <2>3. draining.left \in Nat
    BY <2>1 DEF Drain
  <2>4. draining' # Absent
    BY <2>2, TransportAssumption
  <2>5. due' \in Nat /\ due' <= l - 1 /\ due' <= draining.left - 1
    <3>1. draining.left > 0 /\ due' = IF due > 0 THEN due - 1 ELSE 0
      BY <1>2
    <3> QED
      BY <1>1, <2>1, <2>3, <3>1
  <2> QED
    BY <1>3, <2>2, <2>4, <2>5 DEF DrainInv
<1>8. /\ queued' \in Nat /\ drained' \in Nat /\ queue' \in Seq(Nat)
      /\ Len(queue') + drained' = queued'
  BY <1>1, <1>2, <1>3
<1> QED
  BY <1>5, <1>6, <1>7, <1>8 DEF QueueInv

\* drain_to returns at its limit or at an empty queue: nothing is due any more.
LEMMA DrainEnds ==
    ASSUME QueueInv, draining # Absent, DrainReturns
    PROVE  QueueInv'
<1>1. due = 0
  BY DEF QueueInv, DrainInv, DrainReturns
<1>2. UNCHANGED <<queue, queued, drained, wire, due>> /\ draining' = Absent
  BY DEF DrainReturns, history
<1> QED
  BY <1>1, <1>2 DEF QueueInv, DrainInv, InOrder

\* Nothing else touches the queue.
LEMMA OthersKeepQueue ==
    ASSUME QueueInv, UNCHANGED <<queue, draining, history>>
    PROVE  QueueInv'
BY DEF QueueInv, DrainInv, InOrder, history

LEMMA QueueStep == QueueInv /\ [Next]_vars => QueueInv'
<1> SUFFICES ASSUME QueueInv, [Next]_vars PROVE QueueInv'
  OBVIOUS
<1>1. CASE OwnerStep
  <2>1. ASSUME NEW o \in Objects, NEW n \in 1 .. QueueCapacity, drain_to(o, n)
        PROVE  QueueInv'
    BY <2>1, DrainBegins
  <2>2. CASE UNCHANGED <<queue, draining, history>>
    BY <2>2, OthersKeepQueue
  <2>3. ASSUME NEW o, NEW kind, NEW valid, NEW port, Construct(o, kind, valid, port)
        PROVE  UNCHANGED <<queue, draining, history>>
    BY <2>3 DEF Construct
  <2>4. ASSUME NEW o, NEW p, MoveConstruct(o, p) \/ MoveAssign(o, p)
        PROVE  UNCHANGED <<queue, draining, history>>
    BY <2>4 DEF MoveConstruct, MoveAssign
  <2>5. ASSUME NEW o, Close(o) \/ Destroy(o) \/ EncodeReject(o)
        PROVE  UNCHANGED <<queue, draining, history>>
    BY <2>5 DEF Close, Destroy, EncodeReject
  <2>6. ASSUME NEW o, NEW size, NEW done, Use(o, size, done)
        PROVE  UNCHANGED <<queue, draining, history>>
    BY <2>6 DEF Use
  <2> QED
    BY <1>1, <2>1, <2>2, <2>3, <2>4, <2>5, <2>6, Zenon DEF OwnerStep
<1>2. ASSUME draining # Absent, NEW sent, drain_one_to(sent)
      PROVE  QueueInv'
  BY <1>2, RoundKeepsQueue
<1>3. CASE draining # Absent /\ DrainReturns
  BY <1>3, DrainEnds
<1>4. ASSUME NEW size, QueuedSubmit(size)
      PROVE  QueueInv'
  BY <1>4, SubmitKeepsQueue
<1>5. CASE UNCHANGED vars
  BY <1>5, OthersKeepQueue DEF vars, history
<1> QED
  BY <1>1, <1>2, <1>3, <1>4, <1>5, Zenon DEF Next

\* drain_to hands requests over in the order QueuedExecutionBackend accepted them,
\* each once, and returns only when it owes none, whatever the backend refuses and
\* however many come in meanwhile, for every capacity and limit.
THEOREM QueueInOrder == Spec => []QueuedSentInOrder
<1>1. Init => QueueInv
  BY DEF Init, QueueInv, DrainInv, InOrder
<1>2. QueueInv => QueuedSentInOrder
  BY DEF QueueInv, DrainInv, InOrder, QueuedSentInOrder
<1> QED
  BY <1>1, <1>2, QueueStep, PTL DEF Spec

=============================================================================
