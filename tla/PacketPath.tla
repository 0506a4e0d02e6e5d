----------------------------- MODULE PacketPath -----------------------------
(***************************************************************************)
(* The two buffers of an AnalContent on the way of a packet: the capture   *)
(* thread allocates it, a worker analyses it, copies it into a slot of     *)
(* CACQueue and deletes it, and the output thread copies the slot into the *)
(* one AnalContent it uses for every packet.  ProtoAnal is the analysis.   *)
(***************************************************************************)
EXTENDS ProtoAnal, FiniteSets

CONSTANTS
    Address,       \* where malloc can put a buffer
    MaxPackets,    \* bound: how many packets the worker deals with
    Free,          \* the content of an address that is not allocated
    NULL

(* malloc finds room for the two buffers of three AnalContents; Construct and
   operator= do not ask whether it does. *)
ASSUME PathAssumption ==
    /\ IsFiniteSet(Address) /\ Cardinality(Address) >= 6
    /\ NULL \notin Address /\ NULL \notin Frames
    /\ Free \notin [frame : Frames, start : Nat, len : Nat]
    /\ MaxPackets \in Nat

VARIABLES
    heap,          \* heap[a]: the bytes in the buffer at a (see Bytes), or Free
    packet,        \* the AnalContent the worker has popped
    slot,          \* the AnalContent in the slot of CACQueue
    full,          \* whether the slot counts as filled (m_size)
    out,           \* the AnalContent of COutProtPkg::Run
    worker,        \* "deal", "delete" or "pop": where the worker's loop is
    packets        \* how many packets there were

pathVars == <<vars, heap, packet, slot, full, out, worker, packets>>
others == <<bUseNullPkg, frame, ac, stage, outOfMem, packets>>

(* len bytes of frame f from start on. *)
Bytes(f, start, len) == [frame |-> f, start |-> start, len |-> len]

-----------------------------------------------------------------------------
(* AnalContent: its buffers, and the frame that the other members are from,
   in two groups. *)

Nothing == [pbySrcContent |-> NULL, dwSrcContLen |-> 0,
            pbyAnalContent |-> NULL, dwAnalContentLen |-> 0,
            timeAndId |-> NULL,     \* tm, wIpId and wIpOffset
            rest |-> NULL]

(* Which address it is makes no difference. *)
malloc(h) == CHOOSE a \in Address : h[a] = Free

free(h, p) == IF p = NULL THEN h ELSE [h EXCEPT ![p] = Free]

(* anal_content(ts, bySrcContent, dwSrcLen), with the bytes of frame f. *)
Construct(h, f) ==
    LET a == malloc(h)
    IN  [heap |-> [h EXCEPT ![a] = Bytes(f, 0, Length(f))],
         object |-> [Nothing EXCEPT !.pbySrcContent = a,
                                    !.dwSrcContLen = Length(f),
                                    !.timeAndId = f, !.rest = f]]

(* Bug: only the raw content is freed. *)
DestroySource(h, o) == free(h, o.pbySrcContent)

(* ~anal_content: free both buffers. *)
Destroy(h, o) == free(free(h, o.pbySrcContent), o.pbyAnalContent)

(* acInit does the same, and does not reset all other members. *)
acInit(o) == [Nothing EXCEPT !.timeAndId = o.timeAndId]

(* One buffer in the assignment: the old one is freed; one of length 0 is not
   allocated. *)
Replace(h, old, p, len) ==
    LET g == free(h, old)
        a == malloc(g)
    IN  IF len = 0 THEN [heap |-> g, at |-> NULL]
        ELSE [heap |-> [g EXCEPT ![a] = g[p]], at |-> a]

(* Bug: the content is left as it was by a packet without content. *)
AssignKeeps(h, to, from) ==
    LET src == Replace(h, to.pbySrcContent, from.pbySrcContent, from.dwSrcContLen)
        anal == IF from.dwAnalContentLen = 0
                  THEN [heap |-> src.heap, at |-> to.pbyAnalContent]
                ELSE Replace(src.heap, to.pbyAnalContent, from.pbyAnalContent,
                             from.dwAnalContentLen)
    IN  [heap |-> anal.heap,
         object |-> [from EXCEPT !.pbySrcContent = src.at, !.pbyAnalContent = anal.at]]

(* operator=, a deep copy. *)
Assign(h, to, from) ==
    LET src == Replace(h, to.pbySrcContent, from.pbySrcContent, from.dwSrcContLen)
        anal == Replace(src.heap, to.pbyAnalContent, from.pbyAnalContent,
                        from.dwAnalContentLen)
    IN  [heap |-> anal.heap,
         object |-> [from EXCEPT !.pbySrcContent = src.at, !.pbyAnalContent = anal.at]]

-----------------------------------------------------------------------------

PathInit ==
    /\ Init
    /\ LET new == Construct([a \in Address |-> Free], frame)
       IN  heap = new.heap /\ packet = new.object
    /\ slot = Nothing /\ full = FALSE /\ out = Nothing
    /\ worker = "deal" /\ packets = 1

(* CallBack, and Pop of the worker. *)
NextPacket(f) ==
    /\ worker = "pop" /\ packets < MaxPackets
    /\ packets' = packets + 1
    /\ worker' = "deal"
    /\ frame' = f /\ ac' = Fresh /\ stage' = "popped" /\ outOfMem' = FALSE
    /\ LET new == Construct(heap, f)
       IN  heap' = new.heap /\ packet' = new.object
    /\ UNCHANGED <<bUseNullPkg, slot, full, out>>

(* The analysis allocates the content, of any length, 0 included. *)
Analyse ==
    /\ worker = "deal"
    /\ AnalyseTcp \/ AnalyseUdp
    /\ LET a == malloc(heap)
       IN  IF outOfMem' THEN UNCHANGED <<heap, packet>>
           ELSE /\ heap' = [heap EXCEPT ![a] = Bytes(frame, ac'.start, ac'.len)]
                /\ packet' = [packet EXCEPT !.pbyAnalContent = a,
                                            !.dwAnalContentLen = ac'.len]
    /\ UNCHANGED <<slot, full, out, worker, packets>>

Deal ==
    /\ worker = "deal"
    /\ DispatchEther \/ DispatchIp \/ Filter
    /\ UNCHANGED <<heap, packet, slot, full, out, worker, packets>>

(* CACQueue::Push: the slot may be empty, or have kept its packet when the
   queue was cleared; a full queue refuses. *)
Push ==
    /\ worker = "deal" /\ stage = "forwarded"
    /\ worker' = "delete"
    /\ full' = TRUE
    /\ LET copy == Assign(heap, slot, packet)
       IN  IF full THEN UNCHANGED <<heap, slot>>
           ELSE heap' = copy.heap /\ slot' = copy.object
    /\ UNCHANGED <<others, packet, out>>

(* delete ac; ac = NULL; *)
Delete ==
    /\ worker = "delete" \/ (worker = "deal" /\ stage = "discarded")
    /\ worker' = "pop"
    /\ heap' = Destroy(heap, packet)
    /\ packet' = Nothing
    /\ UNCHANGED <<others, slot, full, out>>

(* CACQueue::Pop(ac) of the output thread, with acInit. *)
Pop ==
    /\ full
    /\ full' = FALSE
    /\ LET copy == Assign(heap, out, slot)
       IN  heap' = Destroy(copy.heap, slot) /\ out' = copy.object
    /\ slot' = acInit(slot)
    /\ UNCHANGED <<others, packet, worker>>

(* CACQueue::Clear leaves the packets in the slots. *)
Clear ==
    /\ full
    /\ full' = FALSE
    /\ UNCHANGED <<others, heap, packet, slot, out, worker>>

(* A crash of the worker ends the process. *)
PathNext ==
    /\ stage # "crashed"
    /\ \/ \E f \in Frames : NextPacket(f)
       \/ Deal \/ Analyse \/ Push \/ Delete
       \/ Pop \/ Clear

PathSpec == PathInit /\ [][PathNext]_pathVars

-----------------------------------------------------------------------------

Objects == <<packet, slot, out>>

(* Every buffer belongs to one AnalContent and is one of its two: none is
   leaked, shared, freed twice or used after it is freed. *)
OneOwnerPerBuffer ==
    LET Holders(a) == {i \in DOMAIN Objects : Objects[i].pbySrcContent = a}
        Contents(a) == {i \in DOMAIN Objects : Objects[i].pbyAnalContent = a}
    IN  \A a \in Address :
          Cardinality(Holders(a)) + Cardinality(Contents(a))
            = IF heap[a] = Free THEN 0 ELSE 1

(* Wherever a packet is, both buffers are of the frame its other members
   describe, and as long as it says: the output never shows parts of two
   packets, although it uses the slots and its AnalContent again and again. *)
ContentOf(o) == IF o.pbyAnalContent = NULL THEN Free ELSE heap[o.pbyAnalContent]
OfOneFrame ==
    \A i \in DOMAIN Objects :
        LET o == Objects[i]
        IN  o.rest # NULL =>
              /\ o.timeAndId = o.rest
              /\ heap[o.pbySrcContent] = Bytes(o.rest, 0, o.dwSrcContLen)
              /\ o.dwSrcContLen = Length(o.rest)
              /\ IF ContentOf(o) = Free THEN o.dwAnalContentLen = 0
                 ELSE /\ ContentOf(o).frame = o.rest
                      /\ ContentOf(o).len = o.dwAnalContentLen
=============================================================================
