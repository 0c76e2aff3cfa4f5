------------------------------- MODULE Graph -------------------------------
(***************************************************************************)
(* The audio graph (dsp/graph.rs): units in a stable graph whose indices   *)
(* are used again, the order they are processed in, the arena their output *)
(* is kept in, and the requests a remote client edits the graph with.      *)
(*                                                                         *)
(* The methods take &mut self and do not interleave; a client sends        *)
(* requests and reads responses at any time.  The samples of a slot of the *)
(* arena are abstracted to who wrote them, in this cycle or in an earlier. *)
(***************************************************************************)
EXTENDS Integers, Sequences, FiniteSets

CONSTANTS
    Indices,        \* node indices (bounds the number of nodes)
    EdgeIndices,    \* edge indices (bounds the number of edges)
    Kinds,          \* kinds of units: source, port (JackInput), filter, sink
    MediaChannels,  \* values of MediaView::n_channels (a media is a source);
                    \* 0 for one that is not opened
    UnitChannels,   \* value of n_channels of the other units
    Capacity,       \* of the request channel and of the response bus
    Reopens         \* whether a media already in the graph may be opened

ASSUME IndicesAssumption ==
    /\ IsFiniteSet(Indices) /\ "old" \notin Indices
    /\ Kinds \subseteq {"source", "port", "filter", "sink"}
    /\ MediaChannels \subseteq Nat /\ UnitChannels \in Nat
    /\ Capacity \in Nat /\ Reopens \in BOOLEAN

VARIABLES
    kind, channels,  \* of the unit of an index
    order,           \* Unit::order, its slot in the arena
    edges,
    nChannels,       \* Graph::n_channels
    ordered,         \* Graph::ordered_nodes
    buffers,         \* Graph::buffers, slot by slot
    phase,           \* which method runs, if any; or a panic, aborted in a cycle
    step, slot,      \* process_nodes: the next node, the next slot
    heard,           \* history: what was merged through an edge in this cycle
    edited,          \* history: nodes or edges were added since updated()
    requests, bus,   \* number of requests and of responses in the transport
    outstanding      \* requests whose response the client has not read

units == <<kind, channels, order, edges, nChannels>>
arena == <<buffers, step, slot, heard>>
transport == <<requests, bus, outstanding>>
vars == <<kind, channels, order, edges, nChannels, ordered, buffers, phase, step,
          slot, heard, edited, requests, bus, outstanding>>

Edge == [id : EdgeIndices, parent : Indices, child : Indices]

\* The nodes that wrote to a slot in this cycle, and "old" for what was there
\* before it: silence, or what some node rendered in an earlier cycle.
Content == SUBSET (Indices \cup {"old"})

Live == {n \in Indices : kind[n] # "vacant"}

\* A unit that is a source and a sink at once, which only a ClosureDSP can be,
\* is none of the kinds.
IsSource(n) == kind[n] \in {"source", "port"}
ChannelsOf(k) == IF k = "source" THEN MediaChannels ELSE {UnitChannels}
Larger(a, b) == IF a > b THEN a ELSE b

Init ==
    /\ kind = [n \in Indices |-> "vacant"] /\ channels = [n \in Indices |-> 0]
    /\ order = [n \in Indices |-> 0] /\ edges = {} /\ nChannels = 0
    /\ ordered = << >> /\ buffers = << >> /\ phase = "idle" /\ step = 1 /\ slot = 0
    /\ heard = [i \in EdgeIndices |-> {}] /\ edited = FALSE
    /\ requests = 0 /\ bus = 0 /\ outstanding = 0

(***************************************************************************)
(* The methods of the service.  They leave ordered and the arena alone.    *)
(***************************************************************************)
\* A new unit takes any index that is not used.
Insert(n, k, c) ==
    /\ n \in Indices \ Live
    /\ kind' = [kind EXCEPT ![n] = k]
    /\ channels' = [channels EXCEPT ![n] = c]
    /\ order' = [order EXCEPT ![n] = 0]
    /\ nChannels' = Larger(nChannels, c)
    /\ edited' = TRUE

AddNode(n, k, c) == Insert(n, k, c) /\ UNCHANGED <<edges, phase>>

\* StableGraph::add_edge panics when one of the nodes is not there.
Connect(parent, child, present) ==
    IF {parent, child} \subseteq present
    THEN /\ \E i \in EdgeIndices \ {e.id : e \in edges} :
              edges' = edges \cup {[id |-> i, parent |-> parent, child |-> child]}
         /\ UNCHANGED phase
    ELSE phase' = "panicked" /\ UNCHANGED edges

\* The index of a parent that was removed may be the one the child gets.
AddChild(parent, n, k, c) == Insert(n, k, c) /\ Connect(parent, n, Live \cup {n})

AddEdge(parent, child) ==
    /\ Connect(parent, child, Live)
    /\ edited' = TRUE
    /\ UNCHANGED <<kind, channels, order, nChannels>>

\* Mutated form of RemoveNode: its edges are left to whoever gets the index.
RemoveNodeOnly(n) ==
    /\ kind' = [kind EXCEPT ![n] = "vacant"]
    /\ channels' = [channels EXCEPT ![n] = 0] /\ order' = [order EXCEPT ![n] = 0]
    /\ UNCHANGED <<edges, nChannels, phase, edited>>

RemoveNode(n) ==
    /\ kind' = [kind EXCEPT ![n] = "vacant"]
    /\ channels' = [channels EXCEPT ![n] = 0] /\ order' = [order EXCEPT ![n] = 0]
    /\ edges' = {e \in edges : e.parent # n /\ e.child # n}
    /\ UNCHANGED <<nChannels, phase, edited>>

RemoveEdge(i) ==
    /\ edges' = {e \in edges : e.id # i}
    /\ UNCHANGED <<kind, channels, order, nChannels, phase, edited>>

\* One edge is removed, if there is one.
DisconnectNodes(parent, child) ==
    LET between == {e \in edges : e.parent = parent /\ e.child = child}
    IN  /\ IF between = {} THEN UNCHANGED edges
           ELSE \E e \in between : edges' = edges \ {e}
        /\ UNCHANGED <<kind, channels, order, nChannels, phase, edited>>

Method ==
    \/ \E n \in Indices, k \in Kinds : \E c \in ChannelsOf(k) :
          \/ AddNode(n, k, c)
          \/ \E parent \in Indices : AddChild(parent, n, k, c)
    \/ \E parent \in Indices, child \in Indices :
          AddEdge(parent, child) \/ DisconnectNodes(parent, child)
    \/ \E n \in Indices : RemoveNode(n)
    \/ \E i \in EdgeIndices : RemoveEdge(i)

\* A call by the owner of the graph.
Call == phase = "idle" /\ Method /\ UNCHANGED <<ordered, arena, transport>>

\* node_mut(): a media that is in the graph is opened.
Reopen(n, c) ==
    /\ phase = "idle" /\ Reopens /\ kind[n] = "source"
    /\ channels' = [channels EXCEPT ![n] = c]
    /\ UNCHANGED <<kind, order, edges, nChannels, ordered, arena, phase, edited, transport>>

-----------------------------------------------------------------------------
(***************************************************************************)
(* updated                                                                 *)
(***************************************************************************)
\* The sequences toposort may return: every node once, after its parents.
IsSort(s) ==
    /\ \A n \in Live : \E i \in DOMAIN s : s[i] = n
    /\ \A i, j \in DOMAIN s : s[i] = s[j] => i = j
    /\ \A e \in edges : \A i, j \in DOMAIN s :
          (s[i] = e.parent /\ s[j] = e.child) => i < j

Sorts == {s \in [1 .. Cardinality(Live) -> Live] : IsSort(s)}

\* toposort finds no cycle: every set of nodes has one without a parent in it.
Sortable ==
    \A C \in (SUBSET Live) \ {{}} : \E n \in C : \A e \in edges : e.child = n => e.parent \notin C

\* Without a sort there is a cycle: expect panics.
Sort ==
    \/ /\ ordered' \in Sorts
       /\ edited' = FALSE /\ phase' = "idle"
    \/ ~Sortable /\ phase' = "panicked" /\ UNCHANGED <<ordered, edited>>

Updated == phase = "idle" /\ Sort /\ UNCHANGED <<units, arena, transport>>

(***************************************************************************)
(* process_requests                                                        *)
(***************************************************************************)
\* Room for the requests of one mpsc sender.
Room == Capacity + 1

\* A client that has at most as many requests under way as the bus holds.
SendRequest ==
    /\ outstanding < Capacity /\ requests < Room
    /\ requests' = requests + 1 /\ outstanding' = outstanding + 1
    /\ UNCHANGED <<units, ordered, arena, phase, edited, bus>>

\* Mutated form of ReceiveResponse: an empty bus is taken for a response.
ReceiveAnything ==
    /\ outstanding > 0
    /\ bus' = bus - 1 /\ outstanding' = outstanding - 1
    /\ UNCHANGED <<units, ordered, arena, phase, edited, requests>>

ReceiveResponse ==
    /\ bus > 0
    /\ bus' = bus - 1 /\ outstanding' = outstanding - 1
    /\ UNCHANGED <<units, ordered, arena, phase, edited, requests>>

\* The graph has its transport (init_transport); without it this panics.
ServeBegin ==
    /\ phase = "idle" /\ phase' = "serving"
    /\ UNCHANGED <<units, ordered, arena, edited, transport>>

\* Mutated form of Respond: a method without a result has no response.
RespondToResults ==
    bus' = IF edited' /\ bus < Capacity THEN bus + 1 ELSE bus

\* The response; lost when the bus is full.
Respond == bus' = IF bus < Capacity THEN bus + 1 ELSE bus

\* Which method a request calls is chosen when it is received.
Serve ==
    /\ phase = "serving" /\ requests > 0
    /\ requests' = requests - 1
    /\ Method
    /\ IF phase' = "panicked" THEN UNCHANGED bus ELSE Respond
    /\ UNCHANGED <<ordered, arena, outstanding>>

\* Mutated form of ServeEnd: the order is not updated.
ServeEndUnsorted ==
    /\ phase = "serving" /\ requests = 0
    /\ phase' = "idle" /\ edited' = FALSE
    /\ UNCHANGED <<units, ordered, arena, transport>>

ServeEnd ==
    /\ phase = "serving" /\ requests = 0
    /\ Sort
    /\ UNCHANGED <<units, arena, transport>>

(***************************************************************************)
(* process_nodes                                                           *)
(***************************************************************************)
\* Mutated form of Resized: the arena never grows.
ResizedOnce == IF buffers = << >> THEN Len(ordered) ELSE Len(buffers)

Resized == Len(ordered)

\* Nodes and edges were only removed since the last updated().
ProcessBegin ==
    /\ phase = "idle" /\ ~edited
    /\ buffers' = [i \in 1 .. Resized |-> {"old"}]
    /\ heard' = [i \in EdgeIndices |-> {}]
    /\ phase' = "processing" /\ step' = 1 /\ slot' = 0
    /\ UNCHANGED <<units, ordered, edited, transport>>

\* A node that has been removed.
ProcessRemoved ==
    /\ phase = "processing" /\ step <= Len(ordered) /\ ordered[step] \notin Live
    /\ step' = step + 1
    /\ UNCHANGED <<units, ordered, buffers, phase, slot, heard, edited, transport>>

\* The edges whose parents' outputs are merged to the input of a node.
Inputs(n) == IF IsSource(n) THEN {} ELSE {e \in edges : e.child = n}

\* The slots a node reads and writes are there.
InArena(n) ==
    /\ \A e \in Inputs(n) : order[e.parent] < Len(buffers)
    /\ kind[n] # "sink" => slot < Len(buffers)

\* JackInput merges its ports to what is in the slot, the others overwrite it.
Rendered(n, content) ==
    (IF kind[n] = "port" THEN content ELSE {}) \cup {n}

\* What is merged through an edge when a node is processed.
Merged(n, i) ==
    heard[i] \cup UNION {buffers[order[e.parent] + 1] : e \in {f \in Inputs(n) : f.id = i}}

\* A media has its stream's description once it has been opened.
Opened(n) == kind[n] = "source" => channels[n] # 0

IsNext(n) == phase = "processing" /\ step <= Len(ordered) /\ n = ordered[step] /\ n \in Live

ProcessStep(n) ==
    /\ IsNext(n) /\ InArena(n) /\ Opened(n)
    /\ heard' = [i \in EdgeIndices |-> Merged(n, i)]
    /\ buffers' = IF kind[n] = "sink" THEN buffers
                  ELSE [buffers EXCEPT ![slot + 1] = Rendered(n, buffers[slot + 1])]
    /\ step' = step + 1
    /\ UNCHANGED <<kind, channels, edges, nChannels, ordered, phase, edited, transport>>

\* Mutated form of ProcessNode: the next node gets the same slot.
ProcessNodeSameSlot(n) ==
    ProcessStep(n) /\ order' = [order EXCEPT ![n] = slot] /\ UNCHANGED slot

\* The node that is next gets the next slot that is not used.
ProcessNode(n) ==
    /\ ProcessStep(n)
    /\ order' = [order EXCEPT ![n] = slot]
    /\ slot' = slot + 1

\* A slot beyond the end of the arena or a media that has not been opened: the
\* audio thread panics in the cycle.
ProcessPanic(n) ==
    /\ IsNext(n) /\ ~(InArena(n) /\ Opened(n))
    /\ phase' = "aborted" /\ order' = [order EXCEPT ![n] = slot]
    /\ UNCHANGED <<kind, channels, edges, nChannels, ordered, arena, edited, transport>>

ProcessEnd ==
    /\ phase = "processing" /\ step > Len(ordered)
    /\ phase' = "idle" /\ heard' = [i \in EdgeIndices |-> {}] /\ step' = 1 /\ slot' = 0
    /\ buffers' = [i \in 1 .. Len(buffers) |-> {"old"}]
    /\ UNCHANGED <<units, ordered, edited, transport>>

Next ==
    \/ Call \/ Updated
    \/ \E n \in Indices, c \in MediaChannels \ {0} : Reopen(n, c)
    \/ \E n \in Indices : ProcessNode(n) \/ ProcessPanic(n)
    \/ SendRequest \/ ReceiveResponse \/ ServeBegin \/ Serve \/ ServeEnd
    \/ ProcessBegin \/ ProcessRemoved \/ ProcessEnd

Spec == Init /\ [][Next]_vars

-----------------------------------------------------------------------------
(***************************************************************************)
(* Correctness                                                             *)
(***************************************************************************)
TypeOK ==
    /\ kind \in [Indices -> Kinds \cup {"vacant"}] /\ channels \in [Indices -> Nat]
    /\ order \in [Indices -> Nat] /\ edges \subseteq Edge /\ nChannels \in Nat
    /\ ordered \in Seq(Indices) /\ buffers \in Seq(Content)
    /\ phase \in {"idle", "serving", "processing", "aborted", "panicked"}
    /\ step \in Nat /\ slot \in Nat /\ heard \in [EdgeIndices -> Content]
    /\ edited \in BOOLEAN
    /\ requests \in Nat /\ bus \in 0 .. Capacity /\ outstanding \in Nat

\* When the graph may be processed its order has every node, each once, and
\* parents before their children, whatever was removed since it was made.
Topological == ~edited => IsSort(ordered)

\* A cycle is under way, or was when the audio thread panicked.
InCycle == phase \in {"processing", "aborted"}

\* Processed(n): this cycle has passed the node.
Processed(n) == InCycle /\ \E i \in 1 .. step - 1 : ordered[i] = n

\* The input of a node is the mix of what its parents rendered in this cycle:
\* nothing older, nothing of another node that had the slot (Unit::order).
MixFresh ==
    \A e \in edges :
        (Processed(e.child) /\ ~IsSource(e.child) /\ kind[e.parent] \in {"source", "filter"})
            => heard[e.id] = {e.parent}

\* In every cycle every node is mixed once, after its parents, and hears what
\* they rendered in this cycle: no edit, by a call or by a request, is seen half
\* done, and no node is left out, mixed twice or given another's slot
\* (process_nodes with updated).
M == INSTANCE Mixer WITH
        mixing <- InCycle, done <- {n \in Live : Processed(n)}
Mixes == M!Spec

\* The arena keeps what a node rendered until the end of the cycle: no node
\* processed later is given the same slot.
OutputKept ==
    \A n \in Live :
        (Processed(n) /\ kind[n] # "sink") =>
            /\ order[n] < Len(buffers)
            /\ buffers[order[n] + 1] \ {"old"} = {n}

\* Processing never reads or writes beyond the arena (which panics), although
\* the arena and the slots of the units are of different moments: a cycle is
\* given up only at a media that has not been opened (media.rs:116).
ProcessSafe ==
    [][phase = "processing" /\ phase' = "aborted" => ~Opened(ordered[step])]_vars

\* Only an edge between two nodes that are in the graph, or a child that gets
\* the index of the removed parent it is added to, can close a cycle, for which
\* updated() panics: a graph edited with add_node, add_child and removals can
\* always be sorted, whatever was removed and whichever indices are used again.
StaysSortable ==
    [][(\A e \in edges' \ edges : e.child \notin Live /\ e.parent # e.child) /\ Sortable
         => Sortable']_<<kind, edges>>

\* A client that has at most as many requests under way as the bus holds loses
\* no response: each is queued, or its response is.  Responses have no id, a
\* lost one would be taken for another.
Answered == phase # "panicked" => outstanding = requests + bus

\* "Max number of channels supported by nodes": the slots have room for the
\* output of every node.
ChannelsFit == \A n \in Live : channels[n] <= nChannels
=============================================================================
