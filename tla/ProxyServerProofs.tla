--------------------------- MODULE ProxyServerProofs ---------------------------
(***************************************************************************)
(* Proofs about ProxyServer: through every rebuild, with any number of     *)
(* cameras and consumers, a handler writes to the stream that consumers of *)
(* its path are given, and no consumer stays on one that was replaced.     *)
(***************************************************************************)
EXTENDS ProxyServer, FiniteSetTheorems, TLAPS

(* The main goroutine has passed Server.Start.                             *)
Started == {"start", "run", "join", "close", "end", "exit"}
(* It has joined the handlers, or there were none.                         *)
Joined == {"close", "end", "exit"}
Ended == {"end", "exit"}

(* A path without a handler has no stream, and before NewManager none has. *)
Idle(p) == loop[p] = "none" /\ ptr[p] = None /\ streams[p] = None
PathsUsed ==
    /\ \A p \in Paths : p \in DOMAIN handlers \/ Idle(p)
    /\ main \in {"config", "listen"} => \A p \in Paths : Idle(p)

(* No handler's loop runs before all of them have their streams, nor after *)
(* the join.                                                               *)
LoopsJoined ==
    /\ main \notin Started => \A p \in Paths : loop[p] = "none"
    /\ main \in Joined => \A p \in Paths : loop[p] = "done" \/ (loop[p] = "none" /\ ptr[p] = None)

(* A handler's reference is the stream of its path, except in a rebuild,   *)
(* and for the one handler that Server.Start is at.                        *)
PtrFollows ==
    /\ \A p \in Paths : ptr[p] \in {None, streams[p]}
    /\ \A p \in Paths : loop[p] \in {"clear", "swapped"} => ptr[p] = None
    /\ \A p \in Paths : loop[p] \in {"run", "done"} => ptr[p] = streams[p]
    /\ main # "bind" => \A p \in Paths : loop[p] = "none" => ptr[p] = streams[p]
    /\ \A p, q \in Paths : loop[p] = "none" /\ loop[q] = "none"
          /\ ptr[p] # streams[p] /\ ptr[q] # streams[q] => p = q

(* The open streams are those of the paths, each of one path only.         *)
StreamsOwned ==
    /\ open \subseteq Range(streams)
    /\ main \notin Ended => \A p \in Paths : streams[p] # None => streams[p] \in open
    /\ main \in Ended => open = {}
    /\ \A p, q \in Paths : streams[p] # None /\ streams[p] = streams[q] => p = q

(* A consumer has a stream of its path, or one that is closed.             *)
ConsumersCurrent ==
    \A c \in Consumers : conn[c].pc # "gone" =>
        /\ conn[c].path \in Paths /\ streams[conn[c].path] # None
        /\ conn[c].pc = "playing" => conn[c].stream \in open
        /\ conn[c].stream \in open => conn[c].stream = streams[conn[c].path]

ServerInv ==
    TypeOK /\ PathsUsed /\ LoopsJoined /\ PtrFollows /\ StreamsOwned /\ ConsumersCurrent

-----------------------------------------------------------------------------
(* There is always a stream that nothing refers to.                        *)

LEMMA ImageFinite ==
  ASSUME NEW S, IsFiniteSet(S), NEW f, f = [x \in S |-> f[x]]
  PROVE  IsFiniteSet(Range(f)) /\ Cardinality(Range(f)) <= Cardinality(S)
<1>1. f \in Surjection(S, Range(f))
  BY DEF Surjection, Range
<1> QED
  BY <1>1, FS_Surjection

LEMMA PathsFinite == IsFiniteSet(Paths)
<1> DEFINE low == [n \in Names |-> Low(n)]
<1>1. IsFiniteSet(Range(low))
  BY ImageFinite, ServerAssumption
<1>2. Paths = Names \cup Range(low)
  BY DEF Paths, Range
<1> QED
  BY <1>1, <1>2, FS_Union, ServerAssumption

LEMMA FreshIsFresh ==
  ASSUME ServerInv
  PROVE  /\ Fresh \in Streams /\ Fresh \notin open
         /\ \A p \in Paths : streams[p] # Fresh /\ ptr[p] # Fresh
         /\ \A c \in Consumers : conn[c].stream # Fresh
<1> DEFINE given == [c \in Consumers |-> conn[c].stream]
           used == Range(streams) \cup Range(given)
<1>1. /\ IsFiniteSet(Range(streams)) /\ Cardinality(Range(streams)) <= Cardinality(Paths)
      /\ IsFiniteSet(Range(given)) /\ Cardinality(Range(given)) <= Cardinality(Consumers)
  <2>1. streams = [p \in Paths |-> streams[p]]
    BY DEF ServerInv, TypeOK
  <2>2. IsFiniteSet(Range(streams)) /\ Cardinality(Range(streams)) <= Cardinality(Paths)
    BY <2>1, ImageFinite, PathsFinite
  <2>3. given = [c \in Consumers |-> given[c]]
    OBVIOUS
  <2>4. IsFiniteSet(Range(given)) /\ Cardinality(Range(given)) <= Cardinality(Consumers)
    BY <2>3, ImageFinite, ServerAssumption
  <2> QED
    BY <2>2, <2>4
<1>2. IsFiniteSet(used) /\ Cardinality(used) <= Cardinality(Paths) + Cardinality(Consumers)
  <2> HIDE DEF given
  <2>1. /\ IsFiniteSet(used)
        /\ Cardinality(used) = Cardinality(Range(streams)) + Cardinality(Range(given))
                                - Cardinality(Range(streams) \cap Range(given))
    BY <1>1, FS_Union
  <2>2. IsFiniteSet(Range(streams) \cap Range(given))
    BY <1>1, FS_Intersection
  <2>3. /\ Cardinality(Range(streams)) \in Nat /\ Cardinality(Range(given)) \in Nat
        /\ Cardinality(Range(streams) \cap Range(given)) \in Nat
        /\ Cardinality(Paths) \in Nat /\ Cardinality(Consumers) \in Nat
    BY <1>1, <2>2, PathsFinite, ServerAssumption, FS_CardinalityType
  <2> QED
    BY <1>1, <2>1, <2>3
<1>3. PICK s \in Streams : s \notin used
  <2>1. SUFFICES ASSUME Streams \subseteq used  PROVE FALSE
    OBVIOUS
  <2>2. Cardinality(Streams) <= Cardinality(used)
    BY <1>2, <2>1, FS_Subset
  <2>3. /\ Cardinality(Streams) \in Nat /\ Cardinality(used) \in Nat
        /\ Cardinality(Paths) \in Nat /\ Cardinality(Consumers) \in Nat
    BY <1>2, PathsFinite, ServerAssumption, FS_CardinalityType
  <2> QED
    BY <1>2, <2>2, <2>3, ServerAssumption
<1>4. /\ s \notin open \cup Range(streams) \cup Range(ptr)
      /\ \A c \in Consumers : conn[c].stream # s
  BY <1>3, ServerAssumption DEF ServerInv, TypeOK, StreamsOwned, PtrFollows, Range
<1>5. /\ Fresh \in Streams
      /\ Fresh \notin open \cup Range(streams) \cup Range(ptr)
      /\ \A c \in Consumers : conn[c].stream # Fresh
  BY <1>4 DEF Fresh
<1> QED
  BY <1>5 DEF ServerInv, TypeOK, Range
-----------------------------------------------------------------------------
(* Configuration and start.                                                *)

LEMMA InitServer == Init => ServerInv
<1> SUFFICES ASSUME Init PROVE ServerInv
  OBVIOUS
<1>1. DOMAIN handlers = {} /\ Range(streams) \subseteq {None}
  BY DEF Init, Range
<1>2. TypeOK
  BY <1>1 DEF Init, TypeOK, Gone
<1>3. PathsUsed /\ LoopsJoined
  BY DEF Init, PathsUsed, LoopsJoined, Idle
<1>4. PtrFollows /\ StreamsOwned /\ ConsumersCurrent
  BY DEF Init, PtrFollows, StreamsOwned, ConsumersCurrent, Gone
<1> QED
  BY <1>2, <1>3, <1>4 DEF ServerInv

LEMMA NewManagerKeeps ==
  ASSUME ServerInv, NewManager
  PROVE  ServerInv'
<1>1. TypeOK'
  <2>1. CASE handlers' = handlers /\ main' = "exit"
    BY <2>1 DEF NewManager, ServerInv, TypeOK
  <2>2. CASE Valid(cfg)
    <3>1. /\ handlers' \in [{PathOf(s) : s \in Sources(cfg)} -> Sources(cfg)]
          /\ main' = "listen"
      BY <2>2 DEF NewManager
    <3>2. DOMAIN cfg \subseteq Names
      BY DEF ServerInv, TypeOK, Configs
    <3>3. \A s \in Sources(cfg) : PathOf(s) \in Paths
      BY <3>2 DEF Sources, PathOf, Paths
    <3>4. DOMAIN handlers' \subseteq Paths /\ \A p \in DOMAIN handlers' : handlers'[p] \in Sources(cfg)
      BY <3>1, <3>3
    <3> QED
      BY <3>4 DEF NewManager, ServerInv, TypeOK
  <2> QED
    BY <2>1, <2>2 DEF NewManager
<1>2. PathsUsed'
  BY DEF NewManager, ServerInv, PathsUsed, Idle
<1>3. LoopsJoined'
  BY DEF NewManager, ServerInv, PathsUsed, LoopsJoined, Idle
<1>4. PtrFollows'
  BY DEF NewManager, ServerInv, PtrFollows
<1>5. StreamsOwned'
  BY ServerAssumption DEF NewManager, ServerInv, TypeOK, PathsUsed, StreamsOwned, Idle,
     Range
<1>6. ConsumersCurrent'
  BY DEF NewManager, ServerInv, ConsumersCurrent
<1> QED
  BY <1>1, <1>2, <1>3, <1>4, <1>5, <1>6 DEF ServerInv

LEMMA ListenKeeps ==
  ASSUME ServerInv, Listen
  PROVE  ServerInv'
<1>1. TypeOK'
  BY DEF Listen, ServerInv, TypeOK
<1>2. PathsUsed'
  BY DEF Listen, ServerInv, PathsUsed, Idle
<1>3. LoopsJoined'
  BY DEF Listen, ServerInv, PathsUsed, LoopsJoined, Idle
<1>4. PtrFollows'
  BY DEF Listen, ServerInv, PtrFollows
<1>5. StreamsOwned'
  BY ServerAssumption DEF Listen, ServerInv, TypeOK, PathsUsed, StreamsOwned, Idle,
     Range
<1>6. ConsumersCurrent'
  BY DEF Listen, ServerInv, ConsumersCurrent
<1> QED
  BY <1>1, <1>2, <1>3, <1>4, <1>5, <1>6 DEF ServerInv

LEMMA CreateStreamKeeps ==
  ASSUME ServerInv, NEW p \in Paths, CreateStream(p)
  PROVE  ServerInv'
<1>1. TypeOK'
  BY FreshIsFresh DEF CreateStream, ServerInv, TypeOK
<1>2. PathsUsed'
  BY DEF CreateStream, ServerInv, PathsUsed, Idle
<1>3. LoopsJoined'
  BY DEF CreateStream, ServerInv, LoopsJoined, Started, Joined
<1>4. PtrFollows'
  BY DEF CreateStream, ServerInv, LoopsJoined, PtrFollows, Started
<1>5. StreamsOwned'
  BY ServerAssumption, FreshIsFresh DEF CreateStream, ServerInv, TypeOK, StreamsOwned,
     Ended, Range
<1>6. ConsumersCurrent'
  BY FreshIsFresh DEF CreateStream, ServerInv, ConsumersCurrent
<1> QED
  BY <1>1, <1>2, <1>3, <1>4, <1>5, <1>6 DEF ServerInv

LEMMA SetStreamKeeps ==
  ASSUME ServerInv, NEW p \in Paths, SetStream(p)
  PROVE  ServerInv'
<1>1. TypeOK'
  BY DEF SetStream, ServerInv, TypeOK
<1>2. PathsUsed'
  BY DEF SetStream, ServerInv, PathsUsed, Idle
<1>3. LoopsJoined'
  BY DEF SetStream, ServerInv, LoopsJoined, Started, Joined
<1>4. PtrFollows'
  BY DEF SetStream, ServerInv, TypeOK, LoopsJoined, PtrFollows, Started
<1>5. StreamsOwned'
  BY DEF SetStream, ServerInv, StreamsOwned, Ended
<1>6. ConsumersCurrent'
  BY DEF SetStream, ServerInv, ConsumersCurrent
<1> QED
  BY <1>1, <1>2, <1>3, <1>4, <1>5, <1>6 DEF ServerInv

LEMMA StartHandlerKeeps ==
  ASSUME ServerInv, NEW p \in Paths, StartHandler(p)
  PROVE  ServerInv'
<1>1. TypeOK'
  BY DEF StartHandler, ServerInv, TypeOK
<1>2. PathsUsed'
  BY DEF StartHandler, ServerInv, PathsUsed, Idle
<1>3. LoopsJoined'
  BY DEF StartHandler, LoopsJoined, Started, Joined
<1>4. PtrFollows'
  BY DEF StartHandler, ServerInv, PtrFollows
<1>5. StreamsOwned'
  BY DEF StartHandler, ServerInv, StreamsOwned, Ended
<1>6. ConsumersCurrent'
  BY DEF StartHandler, ServerInv, ConsumersCurrent
<1> QED
  BY <1>1, <1>2, <1>3, <1>4, <1>5, <1>6 DEF ServerInv

-----------------------------------------------------------------------------
(* Rebuilds.                                                               *)

LEMMA RebuildClearKeeps ==
  ASSUME ServerInv, NEW p \in Paths, RebuildClear(p)
  PROVE  ServerInv'
<1>1. TypeOK'
  BY DEF RebuildClear, ServerInv, TypeOK
<1>2. PathsUsed'
  BY DEF RebuildClear, ServerInv, PathsUsed, Idle
<1>3. LoopsJoined'
  BY DEF RebuildClear, ServerInv, LoopsJoined
<1>4. PtrFollows'
  BY DEF RebuildClear, ServerInv, TypeOK, PtrFollows
<1>5. StreamsOwned'
  BY DEF RebuildClear, ServerInv, StreamsOwned
<1>6. ConsumersCurrent'
  BY DEF RebuildClear, ServerInv, ConsumersCurrent
<1> QED
  BY <1>1, <1>2, <1>3, <1>4, <1>5, <1>6 DEF ServerInv

LEMMA RebuildSwapKeeps ==
  ASSUME ServerInv, NEW p \in Paths, RebuildSwap(p)
  PROVE  ServerInv'
<1>1. TypeOK'
  BY FreshIsFresh DEF RebuildSwap, ServerInv, TypeOK, Disconnected, Gone
<1>2. PathsUsed'
  BY DEF RebuildSwap, ServerInv, PathsUsed, Idle
<1>3. LoopsJoined'
  BY DEF RebuildSwap, ServerInv, LoopsJoined
<1>4. PtrFollows'
  BY DEF RebuildSwap, ServerInv, PtrFollows
<1>5. StreamsOwned'
  BY FreshIsFresh DEF RebuildSwap, ServerInv, TypeOK, LoopsJoined, StreamsOwned, Joined,
     Ended, Range
<1>6. ConsumersCurrent'
  BY FreshIsFresh DEF RebuildSwap, ServerInv, PtrFollows, ConsumersCurrent,
     Disconnected, Gone
<1> QED
  BY <1>1, <1>2, <1>3, <1>4, <1>5, <1>6 DEF ServerInv

LEMMA RebuildSetKeeps ==
  ASSUME ServerInv, NEW p \in Paths, RebuildSet(p)
  PROVE  ServerInv'
<1>1. TypeOK'
  BY DEF RebuildSet, ServerInv, TypeOK
<1>2. PathsUsed'
  BY DEF RebuildSet, ServerInv, PathsUsed, Idle
<1>3. LoopsJoined'
  BY DEF RebuildSet, ServerInv, LoopsJoined
<1>4. PtrFollows'
  BY DEF RebuildSet, ServerInv, TypeOK, PtrFollows
<1>5. StreamsOwned'
  BY DEF RebuildSet, ServerInv, StreamsOwned
<1>6. ConsumersCurrent'
  BY DEF RebuildSet, ServerInv, ConsumersCurrent
<1> QED
  BY <1>1, <1>2, <1>3, <1>4, <1>5, <1>6 DEF ServerInv

LEMMA LoopEndsKeeps ==
  ASSUME ServerInv, NEW p \in Paths, LoopEnds(p)
  PROVE  ServerInv'
<1>1. TypeOK'
  BY DEF LoopEnds, ServerInv, TypeOK
<1>2. PathsUsed'
  BY DEF LoopEnds, ServerInv, PathsUsed, Idle
<1>3. LoopsJoined'
  BY DEF LoopEnds, ServerInv, LoopsJoined
<1>4. PtrFollows'
  BY DEF LoopEnds, ServerInv, PtrFollows
<1>5. StreamsOwned'
  BY DEF LoopEnds, ServerInv, StreamsOwned
<1>6. ConsumersCurrent'
  BY DEF LoopEnds, ServerInv, ConsumersCurrent
<1> QED
  BY <1>1, <1>2, <1>3, <1>4, <1>5, <1>6 DEF ServerInv

-----------------------------------------------------------------------------
(* Consumers and the shutdown.                                             *)

LEMMA OnDescribeKeeps ==
  ASSUME ServerInv, NEW c \in Consumers, NEW p \in Paths, OnDescribe(c, p)
  PROVE  ServerInv'
<1>1. TypeOK'
  BY DEF OnDescribe, ServerInv, TypeOK
<1>2. PathsUsed'
  BY DEF OnDescribe, ServerInv, PathsUsed, Idle
<1>3. LoopsJoined'
  BY DEF OnDescribe, ServerInv, LoopsJoined
<1>4. PtrFollows'
  BY DEF OnDescribe, ServerInv, PtrFollows
<1>5. StreamsOwned'
  BY DEF OnDescribe, ServerInv, StreamsOwned
<1>6. ConsumersCurrent'
  BY ServerAssumption DEF OnDescribe, ServerInv, TypeOK, ConsumersCurrent
<1> QED
  BY <1>1, <1>2, <1>3, <1>4, <1>5, <1>6 DEF ServerInv

LEMMA OnSetupKeeps ==
  ASSUME ServerInv, NEW c \in Consumers, OnSetup(c)
  PROVE  ServerInv'
<1>1. TypeOK'
  BY DEF OnSetup, ServerInv, TypeOK, ConsumersCurrent
<1>2. PathsUsed'
  BY DEF OnSetup, ServerInv, PathsUsed, Idle
<1>3. LoopsJoined'
  BY DEF OnSetup, ServerInv, LoopsJoined
<1>4. PtrFollows'
  BY DEF OnSetup, ServerInv, PtrFollows
<1>5. StreamsOwned'
  BY DEF OnSetup, ServerInv, StreamsOwned
<1>6. ConsumersCurrent'
  BY DEF OnSetup, ServerInv, TypeOK, ConsumersCurrent
<1> QED
  BY <1>1, <1>2, <1>3, <1>4, <1>5, <1>6 DEF ServerInv

LEMMA AddReaderKeeps ==
  ASSUME ServerInv, NEW c \in Consumers, AddReader(c)
  PROVE  ServerInv'
<1>1. TypeOK'
  BY DEF AddReader, ServerInv, TypeOK, Gone
<1>2. PathsUsed'
  BY DEF AddReader, ServerInv, PathsUsed, Idle
<1>3. LoopsJoined'
  BY DEF AddReader, ServerInv, LoopsJoined
<1>4. PtrFollows'
  BY DEF AddReader, ServerInv, PtrFollows
<1>5. StreamsOwned'
  BY DEF AddReader, ServerInv, StreamsOwned
<1>6. ConsumersCurrent'
  BY DEF AddReader, ServerInv, ConsumersCurrent, Gone
<1> QED
  BY <1>1, <1>2, <1>3, <1>4, <1>5, <1>6 DEF ServerInv

LEMMA DisconnectKeeps ==
  ASSUME ServerInv, NEW c \in Consumers, Disconnect(c)
  PROVE  ServerInv'
<1>1. TypeOK'
  BY DEF Disconnect, ServerInv, TypeOK, Gone
<1>2. PathsUsed'
  BY DEF Disconnect, ServerInv, PathsUsed, Idle
<1>3. LoopsJoined'
  BY DEF Disconnect, ServerInv, LoopsJoined
<1>4. PtrFollows'
  BY DEF Disconnect, ServerInv, PtrFollows
<1>5. StreamsOwned'
  BY DEF Disconnect, ServerInv, StreamsOwned
<1>6. ConsumersCurrent'
  BY DEF Disconnect, ServerInv, ConsumersCurrent, Gone
<1> QED
  BY <1>1, <1>2, <1>3, <1>4, <1>5, <1>6 DEF ServerInv

LEMMA SignalKeeps ==
  ASSUME ServerInv, Signal
  PROVE  ServerInv'
<1>1. TypeOK'
  BY DEF Signal, ServerInv, TypeOK
<1>2. PathsUsed'
  BY DEF Signal, ServerInv, PathsUsed, Idle
<1>3. LoopsJoined'
  BY DEF Signal, LoopsJoined, Started, Joined
<1>4. PtrFollows'
  BY DEF Signal, ServerInv, PtrFollows
<1>5. StreamsOwned'
  BY DEF Signal, ServerInv, StreamsOwned, Ended
<1>6. ConsumersCurrent'
  BY DEF Signal, ServerInv, ConsumersCurrent
<1> QED
  BY <1>1, <1>2, <1>3, <1>4, <1>5, <1>6 DEF ServerInv

LEMMA JoinKeeps ==
  ASSUME ServerInv, Join
  PROVE  ServerInv'
<1>1. TypeOK'
  BY DEF Join, ServerInv, TypeOK
<1>2. PathsUsed'
  BY DEF Join, ServerInv, PathsUsed, Idle
<1>3. LoopsJoined'
  BY DEF Join, ServerInv, PathsUsed, LoopsJoined, Idle, Started
<1>4. PtrFollows'
  BY DEF Join, ServerInv, PtrFollows
<1>5. StreamsOwned'
  BY DEF Join, ServerInv, StreamsOwned, Ended
<1>6. ConsumersCurrent'
  BY DEF Join, ServerInv, ConsumersCurrent
<1> QED
  BY <1>1, <1>2, <1>3, <1>4, <1>5, <1>6 DEF ServerInv

LEMMA CloseStreamsKeeps ==
  ASSUME ServerInv, CloseStreams
  PROVE  ServerInv'
<1>1. TypeOK'
  BY DEF CloseStreams, ServerInv, TypeOK, Disconnected, Gone
<1>2. PathsUsed'
  BY DEF CloseStreams, ServerInv, PathsUsed, Idle
<1>3. LoopsJoined'
  BY DEF CloseStreams, ServerInv, LoopsJoined, Started, Joined
<1>4. PtrFollows'
  BY DEF CloseStreams, ServerInv, PtrFollows
<1>5. StreamsOwned'
  BY DEF CloseStreams, ServerInv, StreamsOwned, Ended
<1>6. ConsumersCurrent'
  BY DEF CloseStreams, ServerInv, ConsumersCurrent, Disconnected, Gone
<1> QED
  BY <1>1, <1>2, <1>3, <1>4, <1>5, <1>6 DEF ServerInv

LEMMA CloseServerKeeps ==
  ASSUME ServerInv, CloseServer
  PROVE  ServerInv'
<1>1. TypeOK'
  BY DEF CloseServer, ServerInv, TypeOK, Gone
<1>2. PathsUsed'
  BY DEF CloseServer, ServerInv, PathsUsed, Idle
<1>3. LoopsJoined'
  BY DEF CloseServer, ServerInv, LoopsJoined, Started, Joined
<1>4. PtrFollows'
  BY DEF CloseServer, ServerInv, PtrFollows
<1>5. StreamsOwned'
  BY DEF CloseServer, ServerInv, StreamsOwned, Ended
<1>6. ConsumersCurrent'
  BY DEF CloseServer, ConsumersCurrent, Gone
<1> QED
  BY <1>1, <1>2, <1>3, <1>4, <1>5, <1>6 DEF ServerInv

-----------------------------------------------------------------------------
(* The theorems.                                                           *)

LEMMA StutterKeeps == ASSUME ServerInv, UNCHANGED vars PROVE ServerInv'
  BY DEF vars, ServerInv, TypeOK, PathsUsed, LoopsJoined, PtrFollows, StreamsOwned,
     ConsumersCurrent, Idle

LEMMA NextKeeps == ServerInv /\ [Next]_vars => ServerInv'
<1> SUFFICES ASSUME ServerInv, [Next]_vars PROVE ServerInv'
  OBVIOUS
<1>1. CASE Main
  BY <1>1, NewManagerKeeps, ListenKeeps, CreateStreamKeeps, SetStreamKeeps, StartHandlerKeeps
  DEF Main
<1>2. CASE Signal \/ Shutdown
  BY <1>2, SignalKeeps, JoinKeeps, CloseStreamsKeeps, CloseServerKeeps DEF Shutdown
<1>3. ASSUME NEW p \in Paths, Handler(p) PROVE ServerInv'
  BY <1>3, RebuildClearKeeps, RebuildSwapKeeps, RebuildSetKeeps, LoopEndsKeeps DEF Handler
<1>4. ASSUME NEW c \in Consumers, Consumer(c) PROVE ServerInv'
  BY <1>4, OnDescribeKeeps, OnSetupKeeps, AddReaderKeeps, DisconnectKeeps DEF Consumer
<1>5. CASE Exited \/ UNCHANGED vars
  BY <1>5, StutterKeeps DEF Exited
<1> QED
  BY <1>1, <1>2, <1>3, <1>4, <1>5 DEF Next

THEOREM ServerInvariant == Spec => []ServerInv
<1> QED
  BY InitServer, NextKeeps, PTL DEF Spec

(* With any number of cameras, low streams and consumers, and whatever the *)
(* order of Server.Start, rebuilds and shutdown, a handler that has a      *)
(* stream writes to the open one that its path hands out.                  *)
THEOREM WritesAlwaysReachConsumers == Spec => []WritesReachConsumers
<1>1. ServerInv => WritesReachConsumers
  <2> SUFFICES ASSUME ServerInv, NEW p \in DOMAIN handlers, ptr[p] # None, loop[p] # "done"
               PROVE  ptr[p] \in open /\ ptr[p] = streams[p]
    BY DEF WritesReachConsumers
  <2>1. p \in Paths /\ ptr[p] = streams[p]
    BY DEF ServerInv, TypeOK, PtrFollows
  <2>2. main \notin Ended
    BY <2>1 DEF ServerInv, LoopsJoined, Joined, Ended
  <2> QED
    BY <2>1, <2>2 DEF ServerInv, StreamsOwned
<1> QED
  BY <1>1, ServerInvariant, PTL

(* No consumer that plays stays on a stream a rebuild has replaced, nor on *)
(* one of another camera, and no replaced stream stays open.               *)
THEOREM ReadersAlwaysFed == Spec => []ReadersAreFed
<1>1. ServerInv => ReadersAreFed
  <2> SUFFICES ASSUME ServerInv PROVE ReadersAreFed
    OBVIOUS
  <2>1. ASSUME NEW c \in Consumers, conn[c].pc = "playing"
        PROVE  LET p == conn[c].path
               IN  /\ conn[c].stream = streams[p] /\ streams[p] \in open
                   /\ \A q \in DOMAIN handlers : ptr[q] = streams[p] => q = p
                   /\ loop[p] = "run" => ptr[p] = streams[p]
    <3>1. /\ conn[c].path \in Paths /\ streams[conn[c].path] # None
          /\ conn[c].stream \in open /\ conn[c].stream = streams[conn[c].path]
      BY <2>1 DEF ServerInv, ConsumersCurrent
    <3>2. \A q \in DOMAIN handlers : ptr[q] = streams[conn[c].path] => q = conn[c].path
      BY <3>1 DEF ServerInv, TypeOK, PtrFollows, StreamsOwned
    <3> QED
      BY <3>1, <3>2 DEF ServerInv, PtrFollows
  <2> QED
    BY <2>1 DEF ReadersAreFed, ServerInv, StreamsOwned
<1> QED
  BY <1>1, ServerInvariant, PTL

(* Every stream, reference and connection is what the code's types and its *)
(* session states allow.                                                   *)
THEOREM ServerTypeCorrect == Spec => []TypeOK
<1>1. ServerInv => TypeOK
  BY DEF ServerInv
<1> QED
  BY <1>1, ServerInvariant, PTL
=============================================================================
