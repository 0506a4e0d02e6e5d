----------------------------- MODULE ProtoAnal -----------------------------
(***************************************************************************)
(* What a worker makes of one packet: the switch in CDealProtPkg::Run,     *)
(* CProtocolAnalysis::IpProtoAnal, the TCP and the UDP analysis.  A frame  *)
(* is the lengths of its parts; the analysis yields where the user content *)
(* starts and how long it is, in DWORD arithmetic.                         *)
(***************************************************************************)
EXTENDS Integers

CONSTANTS
    Frames,       \* the frames pcap may hand over (see Frame)
    WordMod       \* 2^32

(* A frame: its EtherType, its protocol, whether it is a fragment behind the
   first one of its datagram, which has no transport header; the lengths in
   bytes of the IP and the TCP options, of the user data and of the padding
   behind it, and how many bytes of its headers are missing at their end. *)
Frame == [ether : {"ip", "arp"}, proto : {"icmp", "igmp", "tcp", "udp", "other"},
          fragment : BOOLEAN, ipOptions : Nat, tcpOptions : Nat, user : Nat,
          padding : Nat, cut : Nat]

(* Where the user data of a frame starts and how long the frame is, by the
   protocols: the headers on the wire before their options. *)
Wire == [ether |-> 14, ip |-> 20, tcp |-> 20, udp |-> 8]
TransportHeader(f) == CASE f.fragment -> 0
                        [] ~f.fragment /\ f.proto = "tcp" -> Wire.tcp + f.tcpOptions
                        [] ~f.fragment /\ f.proto = "udp" -> Wire.udp
                        [] OTHER -> 0
UserStart(f) == Wire.ether + Wire.ip + f.ipOptions + TransportHeader(f)
Length(f) == UserStart(f) - f.cut + f.user + f.padding

(* The network card hands over no frame without its Ethernet header. *)
ASSUME FramesAssumption ==
    /\ Frames \subseteq Frame
    /\ WordMod \in Nat
    /\ \A f \in Frames : Wire.ether <= Length(f) /\ Length(f) < WordMod
    /\ \A f \in Frames : f.cut > 0 => f.user = 0

VARIABLES
    bUseNullPkg, \* config.ini useNullPkg, which Run reads once
    frame,      \* the packet the worker has popped
    ac,         \* the fields of its AnalContent that the analysis sets
    stage,      \* where the worker is, or "crashed" for the whole process
    outOfMem    \* whether malloc refused the buffer for the content

vars == <<bUseNullPkg, frame, ac, stage, outOfMem>>

(* The constructor of AnalContent; start and len are where the content copied
   by the analysis begins in the frame and dwAnalContentLen. *)
Fresh == [protype |-> "err", start |-> 0, len |-> 0, swapped |-> FALSE]

Init ==
    /\ bUseNullPkg \in BOOLEAN
    /\ frame \in Frames
    /\ ac = Fresh
    /\ stage = "popped"
    /\ outOfMem = FALSE

-----------------------------------------------------------------------------

(* Bugs: the sizes of a TCP header with an option and of the pseudo-header. *)
TcpOptionHeader == 24
UdpPseudoHeader == 12

(* sizeof of the structures in PcapHeader.h *)
EthHeader == 14
IpHeader == 20
TcpHeader == 20
UdpHeader == 8

(* DWORD subtraction. *)
Minus(a, b) == (a - b) % WordMod

(* Eth_type is converted in place, in the raw content of the packet; anything
   but IPv4 gives dwRet = 0xff. *)
DispatchEther ==
    /\ stage = "popped"
    /\ stage' = IF frame.ether = "ip" THEN "ip" ELSE "discarded"
    /\ ac' = [ac EXCEPT !.swapped = TRUE]
    /\ UNCHANGED <<bUseNullPkg, frame, outOfMem>>

(* IpProtoAnal: protocols other than TCP and UDP succeed with no content.  The
   length is not looked at: behind the end of a short frame ip_p is whatever
   the memory holds. *)
ProtocolAt == 23
DispatchIp ==
    /\ stage = "ip"
    /\ \E proto \in IF Length(frame) > ProtocolAt THEN {frame.proto}
                    ELSE {"tcp", "udp", "other"} :
         stage' = IF proto \in {"tcp", "udp"} THEN proto ELSE "analysed"
    /\ UNCHANGED <<bUseNullPkg, frame, ac, outOfMem>>

(* Bug: a frame check sequence is taken off, which the card has done. *)
IpPayloadChecked == Minus(Minus(Length(frame), EthHeader + 4), IpHeader)

(* len as IpProtoAnal passes it on: the IP header is taken to have 20 bytes. *)
IpPayload == Minus(Minus(Length(frame), EthHeader), IpHeader)

(* The user content is everything behind a header of a fixed size. *)
Content(proto, header) ==
    [ac EXCEPT !.protype = proto,
               !.start = EthHeader + IpHeader + header,
               !.len = Minus(IpPayload, header)]

(* The length has wrapped: memcpy of nearly 4 GB from behind the packet. *)
Overrun(content) == content.start + content.len > Length(frame)

(* CTcpProtoAnal and CUdpProtoAnal::ProtocolAnalsis; without memory for the
   copy the packet counts as empty. *)
AnalyseTransport(proto, header) ==
    /\ stage = proto
    /\ \/ /\ ac' = Content(proto, header)
          /\ stage' = IF Overrun(ac') THEN "crashed" ELSE "analysed"
          /\ UNCHANGED outOfMem
       \/ /\ ac' = [Content(proto, header) EXCEPT !.len = 0]
          /\ stage' = "analysed"
          /\ outOfMem' = TRUE
    /\ UNCHANGED <<bUseNullPkg, frame>>

AnalyseTcp == AnalyseTransport("tcp", TcpHeader)
AnalyseUdp == AnalyseTransport("udp", UdpHeader)

(* Bug: the packets of one byte are taken for empty ones. *)
FilterShort ==
    /\ stage = "analysed"
    /\ stage' = IF bUseNullPkg \/ ac.len > 1 THEN "forwarded" ELSE "discarded"
    /\ UNCHANGED <<bUseNullPkg, frame, ac, outOfMem>>

(* The end of Run: push into CACQueue, or not. *)
Filter ==
    /\ stage = "analysed"
    /\ stage' = IF bUseNullPkg \/ ac.len # 0 THEN "forwarded" ELSE "discarded"
    /\ UNCHANGED <<bUseNullPkg, frame, ac, outOfMem>>

Next ==
    \/ DispatchEther
    \/ DispatchIp
    \/ AnalyseTcp
    \/ AnalyseUdp
    \/ Filter

Spec == Init /\ [][Next]_vars

-----------------------------------------------------------------------------

Analysed == ac.protype # "err" /\ ~outOfMem /\ stage # "crashed"

(* What the analysis takes for the transport header although it is data: a
   later fragment has none. *)
TakenAsHeader(f) == IF ~f.fragment THEN 0
                    ELSE IF f.proto = "tcp" THEN Wire.tcp ELSE Wire.udp

(* The content is inside the packet, and the only packets whose length wraps,
   which ends the process, are those without a whole transport header: short
   frames and later fragments. *)
ContentInside ==
    /\ Analysed => ac.start + ac.len <= Length(frame)
    /\ stage = "crashed" => /\ frame.fragment \/ frame.cut > 0
                            /\ Length(frame) < ac.start

(* No user data is cut off, options and padding or not, but the first 20 or 8
   bytes of a later fragment. *)
UserDataKept ==
    Analysed /\ frame.user > 0 =>
        /\ ac.start <= UserStart(frame) + TakenAsHeader(frame)
        /\ ac.start + ac.len >= UserStart(frame) + frame.user

(* Without options and padding the content of a packet that has its transport
   header is exactly the user data. *)
Plain(f) == /\ ~f.fragment /\ f.cut = 0
            /\ f.ipOptions = 0 /\ f.tcpOptions = 0 /\ f.padding = 0
PlainContentExact ==
    Analysed /\ Plain(frame) => /\ ac.start = UserStart(frame)
                                /\ ac.len = frame.user

(* A TCP or UDP packet with user data, a later fragment with more of it than is
   taken for a header, reaches the output queue, whatever the configuration,
   unless memory runs out. *)
HasUserData(f) ==
    f.ether = "ip" /\ f.proto \in {"tcp", "udp"} /\ f.user > TakenAsHeader(f)
UserDataForwarded ==
    stage = "discarded" /\ ~outOfMem => ~HasUserData(frame)

(* config.ini line 13, useNullPkg = 0: packets without user data are thrown
   away. *)
EmptyDiscarded ==
    stage = "forwarded" /\ ~bUseNullPkg => frame.user > 0
=============================================================================
