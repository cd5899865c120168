----------------------------- MODULE ProxyServer -----------------------------
(***************************************************************************)
(* The manager and the RTSP server of the output: which handlers a         *)
(* configuration gives, the server stream each of them writes to, the      *)
(* consumers that read one, rebuilds, and the shutdown.  What a handler    *)
(* does between two rebuilds is the subject of StreamHandler; that its     *)
(* loop ends once it is cancelled is StopReturns there, and that it writes *)
(* nothing while its stream is swapped is NoWriterDuringRebuild.           *)
(***************************************************************************)
EXTENDS Integers, FiniteSets, Functions

CONSTANTS
    Names,          \* names a camera may have in the configuration
    Low(_),         \* "low_" in front of a name
    Streams,        \* server streams, used again when nothing refers to them
    Consumers,
    None

Paths == Names \cup {Low(n) : n \in Names}
(* A camera of the configuration has a source_low or not.                  *)
Configs == UNION {[N -> BOOLEAN] : N \in SUBSET Names \ {{}}}
Sources(c) == {<<n, "main">> : n \in DOMAIN c} \cup {<<n, "low">> : n \in {m \in DOMAIN c : c[m]}}
PathOf(source) == IF source[2] = "main" THEN source[1] ELSE Low(source[1])

ASSUME ServerAssumption ==
    /\ None \notin Streams \cup Paths
    /\ IsFiniteSet(Names) /\ IsFiniteSet(Consumers) /\ IsFiniteSet(Streams)
    /\ Cardinality(Streams) > Cardinality(Paths) + Cardinality(Consumers)

VARIABLES
    main,           \* the goroutine of main
    cfg,            \* the configuration
    handlers,       \* the manager's map from paths to the sources relayed there
    streams,        \* s.streams
    open,           \* the server streams that are open
    loop,           \* the loop of each handler
    ptr,            \* sh.stream of each handler
    done,           \* the context is cancelled
    conn            \* each consumer with the stream it was given

vars == <<main, cfg, handlers, streams, open, loop, ptr, done, conn>>

Gone == [pc |-> "gone", path |-> None, stream |-> None]
TypeOK ==
    /\ main \in {"config", "listen", "create", "bind", "start", "run", "join", "close", "end", "exit"}
    /\ cfg \in Configs /\ DOMAIN handlers \subseteq Paths
    /\ \A p \in DOMAIN handlers : handlers[p] \in Sources(cfg)
    /\ streams \in [Paths -> Streams \cup {None}]
    /\ open \subseteq Streams
    /\ loop \in [Paths -> {"none", "run", "clear", "swapped", "done"}]
    /\ ptr \in [Paths -> Streams \cup {None}]
    /\ done \in BOOLEAN
    /\ conn \in [Consumers -> [pc : {"gone", "described", "asked", "playing"},
                               path : Paths \cup {None}, stream : Streams \cup {None}]]
    /\ \A c \in Consumers : conn[c].stream # None <=> conn[c].pc \in {"asked", "playing"}

Init ==
    /\ main = "config" /\ cfg \in Configs /\ handlers = <<>>
    /\ streams = [p \in Paths |-> None] /\ open = {}
    /\ loop = [p \in Paths |-> "none"] /\ ptr = [p \in Paths |-> None]
    /\ done = FALSE /\ conn = [c \in Consumers |-> Gone]

-----------------------------------------------------------------------------
(* Configuration and start.                                                *)

(* Variants named Mut... are plausible slips in the definition below them; *)
(* nothing uses them but the checks that the properties notice such slips. *)

(* The claims of validate: no two sources on one path.                     *)
Valid(c) == \A s, t \in Sources(c) : PathOf(s) = PathOf(t) => s = t

(* NewManager, which fills its map in any order.                           *)
NewManager ==
    /\ main = "config"
    /\ IF Valid(cfg)
       THEN /\ main' = "listen"
            /\ handlers' \in {h \in [{PathOf(s) : s \in Sources(cfg)} -> Sources(cfg)] :
                                 \A p \in DOMAIN h : PathOf(h[p]) = p}
       ELSE main' = "exit" /\ UNCHANGED handlers
    /\ UNCHANGED <<cfg, streams, open, loop, ptr, done, conn>>

(* From here on consumers are answered.                                    *)
Listen ==
    /\ main = "listen" /\ main' \in {"create", "exit"}
    /\ UNCHANGED <<cfg, handlers, streams, open, loop, ptr, done, conn>>

Fresh == CHOOSE s \in Streams :
    /\ s \notin open \cup Range(streams) \cup Range(ptr)
    /\ \A c \in Consumers : conn[c].stream # s

(* Server.Start, for one handler after another: its stream, and then the   *)
(* handler's reference to it and to the rebuild callback.                  *)
CreateStream(p) ==
    /\ main = "create" /\ p \in DOMAIN handlers /\ streams[p] = None
    /\ main' = "bind"
    /\ streams' = [streams EXCEPT ![p] = Fresh]
    /\ open' = open \cup {Fresh}
    /\ UNCHANGED <<cfg, handlers, loop, ptr, done, conn>>
SetStream(p) ==
    /\ main = "bind" /\ streams[p] # None /\ ptr[p] = None
    /\ main' = IF \A q \in DOMAIN handlers : streams[q] # None THEN "start" ELSE "create"
    /\ ptr' = [ptr EXCEPT ![p] = streams[p]]
    /\ UNCHANGED <<cfg, handlers, streams, open, loop, done, conn>>

StartHandler(p) ==
    /\ main = "start" /\ p \in DOMAIN handlers /\ loop[p] = "none"
    /\ loop' = [loop EXCEPT ![p] = "run"]
    /\ main' = IF \A q \in DOMAIN handlers \ {p} : loop[q] # "none" THEN "run" ELSE main
    /\ UNCHANGED <<cfg, handlers, streams, open, ptr, done, conn>>

-----------------------------------------------------------------------------
(* The loops of the handlers.                                              *)

(* rebuildForCodec takes the stream away from the writers: whatever the    *)
(* context says, once DESCRIBE was answered.                               *)
RebuildClear(p) ==
    /\ loop[p] = "run"
    /\ loop' = [loop EXCEPT ![p] = "clear"]
    /\ ptr' = [ptr EXCEPT ![p] = None]
    /\ UNCHANGED <<main, cfg, handlers, streams, open, done, conn>>

(* A server stream is closed: whoever reads it is disconnected.            *)
Disconnected(closed) ==
    [c \in Consumers |-> IF conn[c].pc = "playing" /\ conn[c].stream \in closed THEN Gone ELSE conn[c]]

(* The rebuild callback that leaves the old stream open.                   *)
MutNoCloseOld(p) ==
    /\ loop[p] = "clear"
    /\ loop' = [loop EXCEPT ![p] = "swapped"]
    /\ streams' = [streams EXCEPT ![p] = Fresh]
    /\ open' = open \cup {Fresh}
    /\ UNCHANGED <<main, cfg, handlers, ptr, done, conn>>
(* The rebuild callback that finds the server locked by the shutdown.      *)
MutLocked(p) ==
    /\ loop[p] = "clear" /\ main # "join"
    /\ loop' = [loop EXCEPT ![p] = "swapped"]
    /\ streams' = [streams EXCEPT ![p] = Fresh]
    /\ open' = (open \ {streams[p]}) \cup {Fresh}
    /\ conn' = Disconnected({streams[p]})
    /\ UNCHANGED <<main, cfg, handlers, ptr, done>>
(* The rebuild callback, in one critical section of the server.            *)
RebuildSwap(p) ==
    /\ loop[p] = "clear"
    /\ loop' = [loop EXCEPT ![p] = "swapped"]
    /\ streams' = [streams EXCEPT ![p] = Fresh]
    /\ open' = (open \ {streams[p]}) \cup {Fresh}
    /\ conn' = Disconnected({streams[p]})
    /\ UNCHANGED <<main, cfg, handlers, ptr, done>>

RebuildSet(p) ==
    /\ loop[p] = "swapped"
    /\ loop' = [loop EXCEPT ![p] = "run"]
    /\ ptr' = [ptr EXCEPT ![p] = streams[p]]
    /\ UNCHANGED <<main, cfg, handlers, streams, open, done, conn>>

LoopEnds(p) ==
    /\ loop[p] = "run" /\ done
    /\ loop' = [loop EXCEPT ![p] = "done"]
    /\ UNCHANGED <<main, cfg, handlers, streams, open, ptr, done, conn>>

-----------------------------------------------------------------------------
(* Consumers.                                                              *)

(* gortsplib's server runs until rtsp.Close.                               *)
Answering == main \notin {"config", "listen", "exit"}

(* OnDescribe that answers for every path.                                 *)
MutNoLookup(c, p) ==
    /\ Answering /\ conn[c].pc = "gone"
    /\ conn' = [conn EXCEPT ![c] = [pc |-> "described", path |-> p, stream |-> None]]
    /\ UNCHANGED <<main, cfg, handlers, streams, open, loop, ptr, done>>
(* OnDescribe: the SDP of the stream, or not found.                        *)
OnDescribe(c, p) ==
    /\ Answering /\ conn[c].pc = "gone" /\ streams[p] # None
    /\ conn' = [conn EXCEPT ![c] = [pc |-> "described", path |-> p, stream |-> None]]
    /\ UNCHANGED <<main, cfg, handlers, streams, open, loop, ptr, done>>

(* OnSetup returns a stream and gives up the lock;                         *)
OnSetup(c) ==
    /\ Answering /\ conn[c].pc = "described"
    /\ conn' = [conn EXCEPT ![c].pc = "asked", ![c].stream = streams[conn[c].path]]
    /\ UNCHANGED <<main, cfg, handlers, streams, open, loop, ptr, done>>
(* gortsplib makes the session a reader of it, unless it is closed by now. *)
AddReader(c) ==
    /\ conn[c].pc = "asked"
    /\ conn' = IF conn[c].stream \in open THEN [conn EXCEPT ![c].pc = "playing"]
               ELSE [conn EXCEPT ![c] = Gone]
    /\ UNCHANGED <<main, cfg, handlers, streams, open, loop, ptr, done>>

Disconnect(c) ==
    /\ conn[c].pc # "gone"
    /\ conn' = [conn EXCEPT ![c] = Gone]
    /\ UNCHANGED <<main, cfg, handlers, streams, open, loop, ptr, done>>

-----------------------------------------------------------------------------
(* Shutdown.                                                               *)

Signal ==
    /\ main = "run" /\ main' = "join"
    /\ done' = TRUE
    /\ UNCHANGED <<cfg, handlers, streams, open, loop, ptr, conn>>

(* Manager.Stop that goes on without its handlers.                         *)
MutNoJoin ==
    /\ main = "join" /\ main' = "close"
    /\ UNCHANGED <<cfg, handlers, streams, open, loop, ptr, done, conn>>
(* Every handler's Stop has returned.                                      *)
Join ==
    /\ main = "join" /\ main' = "close"
    /\ \A p \in DOMAIN handlers : loop[p] = "done"
    /\ UNCHANGED <<cfg, handlers, streams, open, loop, ptr, done, conn>>

(* Server.Stop: the streams, and then the listener with every connection.  *)
CloseStreams ==
    /\ main = "close" /\ main' = "end"
    /\ open' = open \ Range(streams)
    /\ conn' = Disconnected(Range(streams))
    /\ UNCHANGED <<cfg, handlers, streams, loop, ptr, done>>
CloseServer ==
    /\ main = "end" /\ main' = "exit"
    /\ conn' = [c \in Consumers |-> Gone]
    /\ UNCHANGED <<cfg, handlers, streams, open, loop, ptr, done>>

Exited == main = "exit" /\ UNCHANGED vars

Main == NewManager \/ Listen \/ (\E p \in Paths : CreateStream(p) \/ SetStream(p) \/ StartHandler(p))
Shutdown == Join \/ CloseStreams \/ CloseServer
Handler(p) == RebuildClear(p) \/ RebuildSwap(p) \/ RebuildSet(p) \/ LoopEnds(p)
Consumer(c) == (\E p \in Paths : OnDescribe(c, p)) \/ OnSetup(c) \/ AddReader(c) \/ Disconnect(c)
Next ==
    \/ Main \/ Signal \/ Shutdown \/ Exited
    \/ \E p \in Paths : Handler(p)
    \/ \E c \in Consumers : Consumer(c)

Spec == Init /\ [][Next]_vars

(* The manager goes on and a rebuild is completed.  A cancelled loop may   *)
(* be between DESCRIBE and its rebuild, but does not dial once more: it is *)
(* not kept from its end for ever.                                         *)
Fairness ==
    /\ WF_vars(Shutdown)
    /\ \A p \in Paths : WF_vars(RebuildSwap(p) \/ RebuildSet(p)) /\ SF_vars(LoopEnds(p))
FairSpec == Spec /\ Fairness

-----------------------------------------------------------------------------
(* Properties.                                                             *)

(* The stream a handler writes to is open, and is the one consumers of its *)
(* path are given, from Server.Start through every rebuild and until the   *)
(* handler has been stopped: no packet is written to a stream that is      *)
(* closed.                                                                 *)
WritesReachConsumers ==
    \A p \in DOMAIN handlers :
        ptr[p] # None /\ loop[p] # "done" => ptr[p] \in open /\ ptr[p] = streams[p]

(* A consumer that plays is never left on a stream that nobody will write  *)
(* to again: it reads the current stream of its path, which no other       *)
(* handler writes to.  No stream that was replaced stays open.             *)
ReadersAreFed ==
    /\ \A c \in Consumers : conn[c].pc = "playing" =>
          LET p == conn[c].path
          IN  /\ conn[c].stream = streams[p] /\ streams[p] \in open
              /\ \A q \in DOMAIN handlers : ptr[q] = streams[p] => q = p
              /\ loop[p] = "run" => ptr[p] = streams[p]
    /\ open \subseteq Range(streams)

(* The shutdown gets to its end, with every stream closed and every        *)
(* consumer disconnected, and it stays that way.                           *)
Quiet == main = "exit" /\ open = {} /\ \A c \in Consumers : conn[c] = Gone
ShutsDown == done ~> []Quiet
=============================================================================
