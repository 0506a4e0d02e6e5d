---------------------------- MODULE MCProtoAnal ----------------------------
(* ProtoAnal and PacketPath for TLC: the frames a network card delivers.  A
   frame received from Ethernet is padded to 60 bytes; one this host sends is
   not. *)
EXTENDS PacketPath

MCFrame(ether, proto, ipo, tcpo, user) ==
    [ether |-> ether, proto |-> proto, fragment |-> FALSE, ipOptions |-> ipo,
     tcpOptions |-> IF proto = "tcp" THEN tcpo ELSE 0,
     user |-> user, padding |-> 0, cut |-> 0]

(* The protocols that are not analysed need no variety. *)
Whole ==
    {MCFrame("ip", p, i, t, u) :
        p \in {"tcp", "udp"}, i \in {0, 4}, t \in {0, 12}, u \in {0, 1, 6, 30}}
      \cup {MCFrame("ip", p, i, 0, 6) : p \in {"icmp", "igmp", "other"}, i \in {0, 4}}
      \cup {MCFrame("arp", "other", 0, 0, u) : u \in {0, 6}}

(* Later fragments with less data, as much and more than a header is long. *)
Fragments ==
    {[MCFrame("ip", p, 0, 0, u) EXCEPT !.fragment = TRUE] :
        p \in {"tcp", "udp"}, u \in {1, 8, 9, 20, 21}}

(* Frames that end in the transport header, the IP header, before ip_p and
   behind the Ethernet header. *)
Short ==
    {[MCFrame("ip", p, 0, 0, 0) EXCEPT !.cut = c] : p \in {"tcp", "udp"}, c \in {1, 10}}
      \cup {[MCFrame("ip", "tcp", 0, 0, 0) EXCEPT !.cut = c] : c \in {30, 31, 40}}

Sent == Whole \cup Fragments \cup Short

Padded(f) == [f EXCEPT !.padding = IF Length(f) < 60 THEN 60 - Length(f) ELSE 0]

MCFrames == Sent \cup {Padded(f) : f \in Sent}
=============================================================================
